---- MODULE Spec2Model ----
(***************************************************************************)
(* The BatchTracker ownership ledger (contracts/BatchTracker.sol, the      *)
(* variant with IPFS metadata) as a state machine.  Every external call is *)
(* one transaction: it either runs to completion or reverts and leaves the *)
(* storage and the event log untouched.                                    *)
(* The client access layer (lib/contract.ts, lib/pinata.ts,                *)
(* config/contracts.ts) runs one operation at a time; each of its steps is *)
(* the code between two awaits, and ledger transactions of other parties   *)
(* may be included between its steps.                                      *)
(***************************************************************************)
EXTENDS Integers, Sequences, FiniteSets, TLC

(* ------------------------------ bounds -------------------------------- *)
\* steps that change the ledger or the clock: successful transactions (each emits
\* one event) plus mined blocks
MaxSteps == 3
\* transactions included on the ledger in a run of the client access layer
MaxClientTxs == 2

(* --------------------------- value domains ---------------------------- *)
ZeroAddress == "0x0"
\* externally owned accounts that sign transactions (msg.sender)
Senders == {"0xA", "0xB", "0xC"}
Addresses == Senders \cup {ZeroAddress}
\* the metadata references passed as _ipfsHash ("" = no metadata attached)
IpfsHashes == {"", "QmX"}
\* uint256 batch ids handed to the contract: 0, every id that can exist, one beyond
BatchIds == 0 .. (MaxSteps + 1)

(* ------------------------- revert reasons ----------------------------- *)
NoRevert == ""
\* require(batchExists[_batchId], ...)
NotFound == "Batch does not exist"
\* require(ownerHistory[length - 1] == msg.sender, ...)
Unauthorized == "Only current owner can modify batch"
\* require(_newOwner != address(0), ...)
ZeroAddressTarget == "Cannot transfer to zero address"
\* require(_newOwner != getCurrentOwner(_batchId), ...)
SameOwnerTarget == "Cannot transfer to current owner"
InvalidArgument == {ZeroAddressTarget, SameOwnerTarget}
\* checked arithmetic (Solidity >= 0.8) reverts with Panic(0x11)
ArithmeticPanic == "Panic(0x11)"

VARIABLES
    batches,        \* mapping(uint256 => Batch)
    batchExists,    \* mapping(uint256 => bool)
    nextBatchId,    \* uint256 counter
    blockTimestamp, \* block.timestamp of the block being built
    events,         \* the contract's event log, in emission order
    lastCall,       \* the transaction executed by the last step and its outcome
    client,         \* the access-layer operation in progress, or its outcome
    metadataStorage,\* MetadataStorage: batch id -> metadata reference ("" = none)
    simple          \* storage, event log and last call of the variant of the
                    \* contract without metadata references (lines 246-439)

ledgerVars == <<batches, batchExists, nextBatchId, blockTimestamp, events, lastCall>>
vars == <<batches, batchExists, nextBatchId, blockTimestamp, events, lastCall,
          client, metadataStorage, simple>>

(* ----------------------------- storage -------------------------------- *)
\* a storage slot never written: every field has its zero value
EmptyBatch ==
    [batchId |-> 0, ownerHistory |-> <<>>, exists |-> FALSE,
     createdAt |-> 0, lastTransferAt |-> 0, ipfsHash |-> ""]

\* ownerHistory[ownerHistory.length - 1]; the callers below handle length 0, where
\* the checked subtraction reverts
Last(s) == s[Len(s)]

(* ------------------------------ events -------------------------------- *)
BatchCreated(batchId, creator, timestamp, ipfsHash) ==
    [name |-> "BatchCreated", batchId |-> batchId, creator |-> creator,
     timestamp |-> timestamp, ipfsHash |-> ipfsHash]

\* mutant: the two address arguments of the emit are swapped
BatchTransferred_swapped(batchId, from, to, timestamp) ==
    [name |-> "BatchTransferred", batchId |-> batchId, from |-> to,
     to |-> from, timestamp |-> timestamp]

BatchTransferred(batchId, from, to, timestamp) ==
    [name |-> "BatchTransferred", batchId |-> batchId, from |-> from,
     to |-> to, timestamp |-> timestamp]

MetadataUpdated(batchId, oldIpfsHash, newIpfsHash, timestamp) ==
    [name |-> "MetadataUpdated", batchId |-> batchId, oldIpfsHash |-> oldIpfsHash,
     newIpfsHash |-> newIpfsHash, timestamp |-> timestamp]

(* ----------------------------- modifiers ------------------------------ *)
\* mutant: existence is decided by comparing the id with the counter
batchMustExist_belowCounter(_batchId) ==
    IF _batchId < nextBatchId THEN NoRevert ELSE NotFound

\* each check yields the revert reason, or NoRevert when it passes
batchMustExist(_batchId) ==
    IF batchExists[_batchId] THEN NoRevert ELSE NotFound

\* mutant: the ownership require is missing
onlyCurrentOwner_noOwnerCheck(_batchId, sender) ==
    IF ~batchExists[_batchId] THEN NotFound ELSE NoRevert

\* mutant: any address of the history passes, not only the last one
onlyCurrentOwner_anyPastOwner(_batchId, sender) ==
    IF ~batchExists[_batchId] THEN NotFound
    ELSE IF \A i \in 1 .. Len(batches[_batchId].ownerHistory) :
                batches[_batchId].ownerHistory[i] # sender THEN Unauthorized
    ELSE NoRevert

\* mutant: the sender is compared with the first entry of the history
onlyCurrentOwner_creator(_batchId, sender) ==
    IF ~batchExists[_batchId] THEN NotFound
    ELSE IF Len(batches[_batchId].ownerHistory) = 0 THEN ArithmeticPanic
    ELSE IF Head(batches[_batchId].ownerHistory) # sender THEN Unauthorized
    ELSE NoRevert

onlyCurrentOwner(_batchId, sender) ==
    IF ~batchExists[_batchId] THEN NotFound
    ELSE IF Len(batches[_batchId].ownerHistory) = 0 THEN ArithmeticPanic
    ELSE IF Last(batches[_batchId].ownerHistory) # sender THEN Unauthorized
    ELSE NoRevert

(* --------------------------- read accessors --------------------------- *)
Returns(v) == [revert |-> NoRevert, value |-> v]
Reverts(r) == [revert |-> r, value |-> 0]

\* mutant: reads the first entry of the history (the creator), not the last
getCurrentOwner_first(_batchId) ==
    IF batchMustExist(_batchId) # NoRevert THEN Reverts(batchMustExist(_batchId))
    ELSE IF Len(batches[_batchId].ownerHistory) = 0 THEN Reverts(ArithmeticPanic)
    ELSE Returns(Head(batches[_batchId].ownerHistory))

getCurrentOwner(_batchId) ==
    IF batchMustExist(_batchId) # NoRevert THEN Reverts(batchMustExist(_batchId))
    ELSE IF Len(batches[_batchId].ownerHistory) = 0 THEN Reverts(ArithmeticPanic)
    ELSE Returns(Last(batches[_batchId].ownerHistory))

getOwnerHistory(_batchId) ==
    IF batchMustExist(_batchId) # NoRevert THEN Reverts(batchMustExist(_batchId))
    ELSE Returns(batches[_batchId].ownerHistory)

getBatchInfo(_batchId) ==
    IF batchMustExist(_batchId) # NoRevert THEN Reverts(batchMustExist(_batchId))
    ELSE IF Len(batches[_batchId].ownerHistory) = 0 THEN Reverts(ArithmeticPanic)
    ELSE LET batch == batches[_batchId] IN
         Returns([batchId |-> batch.batchId,
                  currentOwner |-> Last(batch.ownerHistory),
                  ownerCount |-> Len(batch.ownerHistory),
                  createdAt |-> batch.createdAt,
                  lastTransferAt |-> batch.lastTransferAt,
                  ipfsHash |-> batch.ipfsHash])

getTotalBatches ==
    IF nextBatchId - 1 < 0 THEN Reverts(ArithmeticPanic)
    ELSE Returns(nextBatchId - 1)

getOwnerCount(_batchId) ==
    IF batchMustExist(_batchId) # NoRevert THEN Reverts(batchMustExist(_batchId))
    ELSE Returns(Len(batches[_batchId].ownerHistory))

wasOwner(_batchId, _address) ==
    IF batchMustExist(_batchId) # NoRevert THEN Reverts(batchMustExist(_batchId))
    ELSE LET history == batches[_batchId].ownerHistory IN
         Returns(\E i \in 1 .. Len(history) : history[i] = _address)

(* --------------------------- transactions ----------------------------- *)
\* what the caller of the last transaction observes: the function called, the
\* revert reason (NoRevert on success) and the returned value (0 when none);
\* the arguments of a successful call are carried by the event it emitted
Call(op, revert, ret) == [op |-> op, revert |-> revert, ret |-> ret]

\* room left within the explored bound for one more state-changing step
WithinBound == Len(events) + (blockTimestamp - 1) < MaxSteps

\* a reverted transaction changes nothing and emits nothing
Revert == UNCHANGED <<batches, batchExists, nextBatchId, events>>

\* constructor
constructorNextBatchId == 1

(* ------------------------- client-side values ------------------------- *)
\* JavaScript undefined, for the optional ipfsHash of a BatchInfo
Undefined == "undefined"
\* an optional member of an object: left out, or present with a value
None == <<>>
Some(x) == <<x>>

\* interface BatchMetadata: name, description, created_at and version are
\* strings, the other members are optional; kind is what typeof says of the value
BatchMetadata(name, description, image, attributes, batch_properties, external_url) ==
    [kind |-> "object", name |-> name, description |-> description,
     created_at |-> "2024-01-01T00:00:00.000Z", version |-> "1.0",
     image |-> image, attributes |-> attributes,
     batch_properties |-> batch_properties, external_url |-> external_url]

\* interface BatchFormData without its image: a form with every field left empty
EmptyForm ==
    [name |-> "", description |-> "", origin |-> None, quality_grade |-> None,
     harvest_date |-> None, expiry_date |-> None, weight |-> None, location |-> None,
     certifications |-> None, external_url |-> None, attributes |-> None]

\* what the gateway answers for a content address: a failed request, a body that
\* is not JSON, or a JSON object with its name and description
Content(kind, name, description) ==
    [BatchMetadata(name, description, None, None, None, None) EXCEPT !.kind = kind]
\* the metadata property of a BatchInfo that was never assigned, and null
NoMetadata == Content("undefined", "", "")
Null == Content("null", "", "")

\* an Error as enhanceError inspects it: error.code, error.message and error.reason
Error(code, message, reason) == [code |-> code, message |-> message, reason |-> reason]
NoError == Error("", "", "")

NoBatchInfo ==
    [batchId |-> 0, currentOwner |-> ZeroAddress, ownerCount |-> 0, createdAt |-> 0,
     lastTransferAt |-> 0, ipfsHash |-> Undefined, metadata |-> NoMetadata]

\* no operation has been called yet
IdleClient ==
    [op |-> "", pc |-> "idle", chainId |-> 0, startLen |-> 0,
     signer |-> ZeroAddress, batchId |-> 0, addr |-> ZeroAddress, image |-> FALSE,
     metadataHash |-> "", uploads |-> 0, fetches |-> 0, calls |-> 0, txs |-> 0,
     receipt |-> <<>>, i |-> 0, total |-> 0, owned |-> <<>>, history |-> <<>>,
     info |-> NoBatchInfo, value |-> 0, error |-> NoError,
     formData |-> EmptyForm, metadata |-> NoMetadata, pinned |-> <<>>,
     handler |-> "", newOwner |-> ""]

(* ------------- the contract without metadata references -------------- *)
\* struct Batch of the second contract BatchTracker: no ipfsHash
SimpleEmptyBatch ==
    [batchId |-> 0, ownerHistory |-> <<>>, exists |-> FALSE,
     createdAt |-> 0, lastTransferAt |-> 0]

\* the second contract after its constructor
SimpleConstructed ==
    [batches |-> [id \in BatchIds |-> SimpleEmptyBatch],
     batchExists |-> [id \in BatchIds |-> FALSE],
     nextBatchId |-> 1,
     events |-> <<>>,
     lastCall |-> Call("constructor", NoRevert, 0)]

Init ==
    /\ client = IdleClient
    /\ simple = SimpleConstructed
    /\ metadataStorage = [id \in BatchIds |-> ""]
    /\ batches = [id \in BatchIds |-> EmptyBatch]
    /\ batchExists = [id \in BatchIds |-> FALSE]
    /\ nextBatchId = constructorNextBatchId
    /\ blockTimestamp = 1
    /\ events = <<>>
    /\ lastCall = Call("constructor", NoRevert, 0)

\* mutant: the counter is not incremented
nextBatchIdAfterCreate_same == nextBatchId

\* nextBatchId++
nextBatchIdAfterCreate == nextBatchId + 1

\* mutant: lastTransferAt is left at its zero value
createdBatch_noLastTransferAt(batch, batchId, sender, _ipfsHash) ==
    [batch EXCEPT !.batchId = batchId,
                  !.ownerHistory = Append(@, sender),
                  !.exists = TRUE,
                  !.createdAt = blockTimestamp,
                  !.ipfsHash = _ipfsHash]

\* mutant: the exists field of the struct is not set
createdBatch_noExistsFlag(batch, batchId, sender, _ipfsHash) ==
    [batch EXCEPT !.batchId = batchId,
                  !.ownerHistory = Append(@, sender),
                  !.createdAt = blockTimestamp,
                  !.lastTransferAt = blockTimestamp,
                  !.ipfsHash = _ipfsHash]

\* the writes of createBatch to batches[batchId]
createdBatch(batch, batchId, sender, _ipfsHash) ==
    [batch EXCEPT !.batchId = batchId,
                  !.ownerHistory = Append(@, sender),
                  !.exists = TRUE,
                  !.createdAt = blockTimestamp,
                  !.lastTransferAt = blockTimestamp,
                  !.ipfsHash = _ipfsHash]

createBatch(sender, _ipfsHash) ==
    /\ WithinBound
    /\ LET batchId == nextBatchId IN
       /\ nextBatchId' = nextBatchIdAfterCreate
       /\ batches' = [batches EXCEPT
                        ![batchId] = createdBatch(@, batchId, sender, _ipfsHash)]
       /\ batchExists' = [batchExists EXCEPT ![batchId] = TRUE]
       /\ events' = Append(events,
                           BatchCreated(batchId, sender, blockTimestamp, _ipfsHash))
       /\ lastCall' = Call("createBatch", NoRevert, batchId)
    /\ UNCHANGED blockTimestamp

\* mutant: the require against a transfer to the current owner is missing
transferBatchRevert_noSelfCheck(sender, _batchId, _newOwner) ==
    IF batchMustExist(_batchId) # NoRevert THEN batchMustExist(_batchId)
    ELSE IF onlyCurrentOwner(_batchId, sender) # NoRevert
        THEN onlyCurrentOwner(_batchId, sender)
    ELSE IF _newOwner = ZeroAddress THEN ZeroAddressTarget
    ELSE NoRevert

\* mutant: the require against a transfer to the zero address is missing
transferBatchRevert_noZeroCheck(sender, _batchId, _newOwner) ==
    IF batchMustExist(_batchId) # NoRevert THEN batchMustExist(_batchId)
    ELSE IF onlyCurrentOwner(_batchId, sender) # NoRevert
        THEN onlyCurrentOwner(_batchId, sender)
    ELSE IF getCurrentOwner(_batchId).revert # NoRevert
        THEN getCurrentOwner(_batchId).revert
    ELSE IF _newOwner = getCurrentOwner(_batchId).value THEN SameOwnerTarget
    ELSE NoRevert

\* mutant: the argument requires run before the modifiers
transferBatchRevert_argsFirst(sender, _batchId, _newOwner) ==
    IF _newOwner = ZeroAddress THEN ZeroAddressTarget
    ELSE IF batchMustExist(_batchId) # NoRevert THEN batchMustExist(_batchId)
    ELSE IF getCurrentOwner(_batchId).revert # NoRevert
        THEN getCurrentOwner(_batchId).revert
    ELSE IF _newOwner = getCurrentOwner(_batchId).value THEN SameOwnerTarget
    ELSE onlyCurrentOwner(_batchId, sender)

\* modifiers, then the two require statements of the body, in source order
transferBatchRevert(sender, _batchId, _newOwner) ==
    IF batchMustExist(_batchId) # NoRevert THEN batchMustExist(_batchId)
    ELSE IF onlyCurrentOwner(_batchId, sender) # NoRevert
        THEN onlyCurrentOwner(_batchId, sender)
    ELSE IF _newOwner = ZeroAddress THEN ZeroAddressTarget
    ELSE IF getCurrentOwner(_batchId).revert # NoRevert
        THEN getCurrentOwner(_batchId).revert
    ELSE IF _newOwner = getCurrentOwner(_batchId).value THEN SameOwnerTarget
    ELSE NoRevert

\* mutant: the new owner overwrites the last entry instead of being pushed
transferredBatch_overwrite(batch, _newOwner) ==
    [batch EXCEPT !.ownerHistory = [@ EXCEPT ![Len(@)] = _newOwner],
                  !.lastTransferAt = blockTimestamp]

\* mutant: the new owner is inserted at the front of the history
transferredBatch_prepend(batch, _newOwner) ==
    [batch EXCEPT !.ownerHistory = <<_newOwner>> \o @,
                  !.lastTransferAt = blockTimestamp]

\* mutant: lastTransferAt is not updated
transferredBatch_noTimestamp(batch, _newOwner) ==
    [batch EXCEPT !.ownerHistory = Append(@, _newOwner)]

\* the writes of transferBatch to batches[_batchId]
transferredBatch(batch, _newOwner) ==
    [batch EXCEPT !.ownerHistory = Append(@, _newOwner),
                  !.lastTransferAt = blockTimestamp]

transferBatch(sender, _batchId, _newOwner) ==
    LET revert == transferBatchRevert(sender, _batchId, _newOwner) IN
    /\ lastCall' = Call("transferBatch", revert, 0)
    /\ UNCHANGED blockTimestamp
    /\ IF revert # NoRevert THEN Revert
       ELSE /\ WithinBound
            /\ LET currentOwner == getCurrentOwner(_batchId).value IN
               /\ batches' = [batches EXCEPT
                                ![_batchId] = transferredBatch(@, _newOwner)]
               /\ events' = Append(events,
                                   BatchTransferred(_batchId, currentOwner,
                                                    _newOwner, blockTimestamp))
            /\ UNCHANGED <<batchExists, nextBatchId>>

updateMetadataRevert(sender, _batchId) ==
    IF batchMustExist(_batchId) # NoRevert THEN batchMustExist(_batchId)
    ELSE onlyCurrentOwner(_batchId, sender)

\* mutant: the update also stamps lastTransferAt, as a transfer does
updatedBatch_stampsTransfer(batch, _newIpfsHash) ==
    [batch EXCEPT !.ipfsHash = _newIpfsHash, !.lastTransferAt = blockTimestamp]

\* the write of updateMetadata to batches[_batchId]
updatedBatch(batch, _newIpfsHash) == [batch EXCEPT !.ipfsHash = _newIpfsHash]

updateMetadata(sender, _batchId, _newIpfsHash) ==
    LET revert == updateMetadataRevert(sender, _batchId) IN
    /\ lastCall' = Call("updateMetadata", revert, 0)
    /\ UNCHANGED blockTimestamp
    /\ IF revert # NoRevert THEN Revert
       ELSE /\ WithinBound
            /\ LET oldHash == batches[_batchId].ipfsHash IN
               /\ batches' = [batches EXCEPT
                                ![_batchId] = updatedBatch(@, _newIpfsHash)]
               /\ events' = Append(events,
                                   MetadataUpdated(_batchId, oldHash,
                                                   _newIpfsHash, blockTimestamp))
            /\ UNCHANGED <<batchExists, nextBatchId>>

\* a new block is mined: block.timestamp does not decrease between transactions
mineBlock ==
    /\ WithinBound
    /\ blockTimestamp' = blockTimestamp + 1
    /\ lastCall' = Call("mineBlock", NoRevert, 0)
    /\ UNCHANGED <<batches, batchExists, nextBatchId, events>>

\* the _batchId arguments transactions are sent with: 0 (never assigned), every
\* id assigned so far, and the next id (not assigned yet)
CalledIds == 0 .. nextBatchId

\* the ledger on its own: no access-layer operation is called, and nothing is
\* sent to the second contract
clientUnchanged == UNCHANGED <<client, metadataStorage, simple>>

Next ==
    \/ \E sender \in Senders, h \in IpfsHashes :
          createBatch(sender, h) /\ clientUnchanged
    \/ \E sender \in Senders, id \in CalledIds, to \in Addresses :
          transferBatch(sender, id, to) /\ clientUnchanged
    \/ \E sender \in Senders, id \in CalledIds, h \in IpfsHashes :
          updateMetadata(sender, id, h) /\ clientUnchanged
    \/ mineBlock /\ clientUnchanged

Spec == Init /\ [][Next]_vars

(* ------------------------- derived observations ----------------------- *)
IsCreated(e) == e.name = "BatchCreated"
IsTransferred(e) == e.name = "BatchTransferred"
IsUpdated(e) == e.name = "MetadataUpdated"
\* the successful createBatch calls so far, in call order
CreatedLog == SelectSeq(events, IsCreated)
\* this step is a transaction of the given kind that succeeded (it emitted)
Emits(name) == Len(events') = Len(events) + 1 /\ Last(events').name = name

(* ------------------------------ C1 ------------------------------------ *)
\* C1: after any sequence of calls, successful or reverted, getTotalBatches()
\* is the number of successful createBatch calls, the ids they were given are
\* 1..N in call order, and a createBatch that has just returned returned N.
C1_TotalBatchesCountsCreates ==
    /\ getTotalBatches = Returns(Len(CreatedLog))
    /\ \A i \in 1 .. Len(CreatedLog) : CreatedLog[i].batchId = i
    /\ (lastCall.op = "createBatch" /\ lastCall.revert = NoRevert)
          => lastCall.ret = Len(CreatedLog)

\* two batches were created and a later transaction reverted
C1_Witness ==
    /\ Len(CreatedLog) = 2
    /\ lastCall.revert # NoRevert

(* ------------------------------ C2 ------------------------------------ *)
\* every transferBatch by a sender that is not the current owner of an
\* existing batch reverts with the ownership reason, whatever the target
C2_NonOwnerRejected ==
    \A id \in BatchIds, sender \in Senders, to \in Addresses :
        (batchExists[id] /\ sender # Last(batches[id].ownerHistory))
            => transferBatchRevert(sender, id, to) = Unauthorized

\* a transferBatch that reverted with the ownership reason left every batch's
\* ownerHistory and lastTransferAt as they were
C2_RejectedLeavesHistory ==
    (lastCall'.op = "transferBatch" /\ lastCall'.revert = Unauthorized)
        => \A id \in BatchIds :
              /\ batches'[id].ownerHistory = batches[id].ownerHistory
              /\ batches'[id].lastTransferAt = batches[id].lastTransferAt

\* C2: transferBatch on an existing batch by anyone but its current owner fails
\* with Unauthorized, and the failed attempt leaves ownerHistory and
\* lastTransferAt unchanged.
C2_UnauthorizedTransfer ==
    [](C2_NonOwnerRejected) /\ [][C2_RejectedLeavesHistory]_vars

\* a transfer was just rejected as unauthorized on a ledger holding a batch that
\* has already changed hands
C2_Witness ==
    /\ lastCall.op = "transferBatch" /\ lastCall.revert = Unauthorized
    /\ \E id \in BatchIds : Len(batches[id].ownerHistory) = 2

(* ------------------------------ C3 ------------------------------------ *)
\* C3: for every existing batch getOwnerHistory is non-empty, its last element
\* is what getCurrentOwner returns, and getOwnerCount is its length.
C3_HistoryEndsAtCurrentOwner ==
    \A id \in BatchIds :
        batchExists[id] =>
            /\ getOwnerHistory(id).revert = NoRevert
            /\ getCurrentOwner(id).revert = NoRevert
            /\ getOwnerCount(id).revert = NoRevert
            /\ getOwnerHistory(id).value # <<>>
            /\ Last(getOwnerHistory(id).value) = getCurrentOwner(id).value
            /\ getOwnerCount(id).value = Len(getOwnerHistory(id).value)

\* a batch whose history holds three owners
C3_Witness ==
    \E id \in BatchIds : batchExists[id] /\ getOwnerCount(id).value = 3

(* ------------------------------ C4 ------------------------------------ *)
\* a successful transferBatch(id, X) makes X the current owner and makes the
\* owner count one more than before the call
C4_TransferEffect ==
    Emits("BatchTransferred") =>
        \A id \in BatchIds, X \in Addresses :
            (Last(events').batchId = id /\ Last(events').to = X)
            => /\ getCurrentOwner(id)' = Returns(X)
               /\ getOwnerCount(id)' = Returns(getOwnerCount(id).value + 1)
               /\ wasOwner(id, X)' = Returns(TRUE)

\* wasOwner(id, a), once true, is true after every step; wasOwner reads only
\* batchExists[id] and batches[id], so a step that leaves both as they were
\* leaves its answers as they were
C4_WasOwnerMonotone ==
    \A id \in BatchIds :
        batchExists[id] =>
            \/ batchExists'[id] /\ batches'[id] = batches[id]
            \/ \A a \in Addresses :
                  wasOwner(id, a) = Returns(TRUE) => wasOwner(id, a)' = Returns(TRUE)

\* C4: right after a successful transferBatch(id, X), getCurrentOwner(id) = X
\* and getOwnerCount(id) has grown by exactly 1; wasOwner(id, X) is true then
\* and stays true in every later state.
C4_TransferThenWasOwnerForever == [][C4_TransferEffect /\ C4_WasOwnerMonotone]_vars

\* a batch was transferred to X and then on to someone else: X is in the
\* history and is no longer the current owner
C4_Witness ==
    \E id \in BatchIds :
        /\ Len(batches[id].ownerHistory) = 3
        /\ wasOwner(id, batches[id].ownerHistory[2]) = Returns(TRUE)
        /\ getCurrentOwner(id).value # batches[id].ownerHistory[2]

(* ------------------------------ C5 ------------------------------------ *)
\* the current owner's transfer to the zero address, or to itself, reverts with
\* one of the two argument reasons
C5_BadTargetRejected ==
    \A id \in BatchIds :
        batchExists[id] =>
            LET owner == Last(batches[id].ownerHistory) IN
            /\ transferBatchRevert(owner, id, ZeroAddress) \in InvalidArgument
            /\ transferBatchRevert(owner, id, owner) \in InvalidArgument

\* a transferBatch that reverted with an argument reason changed no storage
\* and emitted nothing
C5_RejectedLeavesLedger ==
    (lastCall'.op = "transferBatch" /\ lastCall'.revert \in InvalidArgument)
        => UNCHANGED <<batches, batchExists, nextBatchId, events>>

\* C5: on an existing batch, the current owner's transferBatch to the zero
\* address or to itself fails with InvalidArgument and the ledger (ownerHistory,
\* lastTransferAt, metadataRef, counter) is unchanged.
C5_InvalidTargetTransfer ==
    [](C5_BadTargetRejected) /\ [][C5_RejectedLeavesLedger]_vars

\* the owner of a batch that already changed hands just tried to transfer it to
\* itself
C5_Witness ==
    /\ lastCall.op = "transferBatch" /\ lastCall.revert = SameOwnerTarget
    /\ \E id \in BatchIds : Len(batches[id].ownerHistory) = 2

(* ------------------------------ C6 ------------------------------------ *)
\* C6: transferBatch reports the first violated precondition in the order
\* existence, caller is current owner, newOwner not zero, newOwner differs from
\* the current owner: NotFound for a non-existent id whatever the other
\* arguments, Unauthorized for a non-owner whatever the target, and
\* InvalidArgument only to the owner.
C6_FirstViolationWins ==
    \A id \in BatchIds, sender \in Senders, to \in Addresses :
        LET r == transferBatchRevert(sender, id, to) IN
        IF ~batchExists[id] THEN r = NotFound
        ELSE IF sender # Last(batches[id].ownerHistory) THEN r = Unauthorized
        ELSE IF to = ZeroAddress THEN r = ZeroAddressTarget
        ELSE IF to = Last(batches[id].ownerHistory) THEN r = SameOwnerTarget
        ELSE r = NoRevert

\* a transfer of a non-existent id was just rejected as NotFound on a ledger
\* where another batch exists and has changed hands
C6_Witness ==
    /\ lastCall.op = "transferBatch" /\ lastCall.revert = NotFound
    /\ \E id \in BatchIds : Len(batches[id].ownerHistory) = 2

(* ------------------------------ C7 ------------------------------------ *)
\* the ids createBatch has handed out
CreatedIds == {CreatedLog[i].batchId : i \in 1 .. Len(CreatedLog)}

\* C7: every accessor that takes a batch id fails with NotFound on every id
\* that was never created (0 and the ids above getTotalBatches() included);
\* batchExists(id) and getTotalBatches() never fail.
C7_AccessorsNotFound ==
    /\ getTotalBatches.revert = NoRevert
    /\ \A id \in BatchIds :
          /\ batchExists[id] \in BOOLEAN
          /\ (id \notin CreatedIds \/ id = 0 \/ id > getTotalBatches.value) =>
                /\ getCurrentOwner(id).revert = NotFound
                /\ getOwnerHistory(id).revert = NotFound
                /\ getBatchInfo(id).revert = NotFound
                /\ getOwnerCount(id).revert = NotFound
                /\ \A a \in Addresses : wasOwner(id, a).revert = NotFound

\* two batches exist, so ids 0 and 3.. are the never-created ones
C7_Witness ==
    /\ getTotalBatches.value = 2
    /\ getCurrentOwner(2).revert = NoRevert
    /\ getCurrentOwner(3).revert = NotFound

(* ------------------------------ C8 ------------------------------------ *)
\* a step leaves a history as it was or pushes exactly one entry onto its end
C8_StepAppends ==
    \A id \in BatchIds :
        LET before == batches[id].ownerHistory
            after == batches'[id].ownerHistory
        IN \/ after = before
           \/ /\ Len(after) = Len(before) + 1
              /\ SubSeq(after, 1, Len(before)) = before

\* entry 0 of a batch's history is the sender of the createBatch that made it
C8_FirstIsCreator ==
    \A i \in 1 .. Len(CreatedLog) :
        batches[CreatedLog[i].batchId].ownerHistory[1] = CreatedLog[i].creator

\* C8: ownerHistory is append-only: every step leaves it unchanged or makes it
\* exactly one element longer with the old history as prefix; index 0 is the
\* address that called createBatch for the batch and never changes.
C8_HistoryAppendOnly == [](C8_FirstIsCreator) /\ [][C8_StepAppends]_vars

\* a batch went from its creator to a second owner and back to the creator
C8_Witness ==
    \E id \in BatchIds :
        /\ Len(batches[id].ownerHistory) = 3
        /\ batches[id].ownerHistory[3] = batches[id].ownerHistory[1]

(* ------------------------------ C9 ------------------------------------ *)
\* the transfer events of batch id, in emission order
TransfersOf(id) ==
    SelectSeq(events, LAMBDA e : IsTransferred(e) /\ e.batchId = id)

\* C9: only the last entry of ownerHistory may transfer a batch or update its
\* metadata: both calls succeed only for the caller getCurrentOwner(id) returns
\* and fail with Unauthorized for everyone else; after a transfer from A to B
\* that is the batch's latest, A's calls fail with Unauthorized and B's succeed.
C9_OnlyCurrentOwnerActs ==
    \A id \in BatchIds :
        batchExists[id] =>
            LET owner == getCurrentOwner(id).value
                validTargets == Addresses \ {ZeroAddress, owner}
            IN /\ owner = Last(batches[id].ownerHistory)
               /\ \A sender \in Senders :
                     /\ updateMetadataRevert(sender, id) =
                            (IF sender = owner THEN NoRevert ELSE Unauthorized)
                     /\ \A to \in validTargets :
                            transferBatchRevert(sender, id, to) =
                                (IF sender = owner THEN NoRevert ELSE Unauthorized)
                     /\ \A to \in Addresses :
                            transferBatchRevert(sender, id, to) = NoRevert
                                => sender = owner
               /\ TransfersOf(id) # <<>> =>
                     LET A == Last(TransfersOf(id)).from
                         B == Last(TransfersOf(id)).to
                     IN /\ A # B
                        /\ updateMetadataRevert(A, id) = Unauthorized
                        /\ \A to \in Addresses :
                               transferBatchRevert(A, id, to) = Unauthorized
                        /\ updateMetadataRevert(B, id) = NoRevert
                        /\ \A to \in Addresses \ {ZeroAddress, B} :
                               transferBatchRevert(B, id, to) = NoRevert

\* a batch went from A to B, and an updateMetadata has just been rejected as
\* unauthorized
C9_Witness ==
    /\ lastCall.op = "updateMetadata" /\ lastCall.revert = Unauthorized
    /\ \E id \in BatchIds : TransfersOf(id) # <<>>

(* ------------------------------ C10 ----------------------------------- *)
\* createBatch has no revert path: any sender can create with any reference
C10_CreateNeverReverts ==
    WithinBound =>
        \A sender \in Senders, h \in IpfsHashes : ENABLED createBatch(sender, h)

\* what a successful createBatch(h) by c leaves behind
C10_CreateEffect ==
    Emits("BatchCreated") =>
      \A c \in Senders, h \in IpfsHashes, id \in BatchIds :
        Last(events') = BatchCreated(id, c, blockTimestamp, h)
        => /\ id = nextBatchId
           /\ lastCall' = Call("createBatch", NoRevert, id)
           /\ batches'[id] = [batchId |-> id, ownerHistory |-> <<c>>,
                               exists |-> TRUE, createdAt |-> blockTimestamp,
                               lastTransferAt |-> blockTimestamp, ipfsHash |-> h]
           /\ batchExists'[id]
           /\ nextBatchId' = nextBatchId + 1
           /\ \A other \in BatchIds \ {id} :
                 batches'[other] = batches[other]
                 /\ batchExists'[other] = batchExists[other]

\* C10: a successful createBatch(metadataRef) by c, the empty reference
\* included, returns the previous counter value as id, leaves batch id with
\* ownerHistory = [c], createdAt = lastTransferAt = block time, the reference
\* stored, exists = true and the counter one higher; createBatch never reverts.
C10_CreateBatch == [](C10_CreateNeverReverts) /\ [][C10_CreateEffect]_vars

\* the second batch was just created, with the empty reference, after a block
\* was mined
C10_Witness ==
    /\ lastCall = Call("createBatch", NoRevert, 2)
    /\ batches[2].ipfsHash = ""
    /\ batches[2].createdAt = 2

(* ------------------------------ C11 ----------------------------------- *)
\* C11: a successful updateMetadata(id, newRef) replaces the stored reference of
\* batch id by newRef and emits an update event whose old reference is the one
\* stored before the call; ownerHistory, createdAt and lastTransferAt of the
\* batch, every other batch, and the counter stay as they were.
C11_UpdateChangesOnlyReference ==
    [][ Emits("MetadataUpdated") =>
          \A id \in BatchIds, newRef \in IpfsHashes :
              (Last(events').batchId = id /\ Last(events').newIpfsHash = newRef)
              => /\ batches'[id].ipfsHash = newRef
                 /\ Last(events').oldIpfsHash = batches[id].ipfsHash
                 /\ batches'[id].ownerHistory = batches[id].ownerHistory
                 /\ batches'[id].createdAt = batches[id].createdAt
                 /\ batches'[id].lastTransferAt = batches[id].lastTransferAt
                 /\ batches'[id].batchId = batches[id].batchId
                 /\ batches'[id].exists = batches[id].exists
                 /\ \A other \in BatchIds \ {id} : batches'[other] = batches[other]
                 /\ UNCHANGED <<batchExists, nextBatchId>> ]_vars

\* the reference of a batch was replaced in a block later than the one that
\* created it
C11_Witness ==
    /\ events # <<>>
    /\ IsUpdated(Last(events))
    /\ Last(events).oldIpfsHash # Last(events).newIpfsHash
    /\ Last(events).timestamp > batches[Last(events).batchId].createdAt

(* ------------------------------ C12 ----------------------------------- *)
\* once a transfer of batch id by A to B is included, every further transfer of
\* id signed by A, whatever its target, fails the ownership check, and the
\* history has grown by exactly one entry
C12_SecondTransferRejected ==
    Emits("BatchTransferred") =>
        \A id \in BatchIds, A \in Senders, B \in Addresses :
            (/\ Last(events').batchId = id
             /\ Last(events').from = A
             /\ Last(events').to = B)
            => /\ transferBatchRevert(A, id, B) = NoRevert
               /\ \A C \in Addresses :
                     (transferBatchRevert(A, id, C))' = Unauthorized
               /\ Len(batches'[id].ownerHistory) =
                     Len(batches[id].ownerHistory) + 1

\* in the log, two transfers of one batch that follow each other are never by
\* the same signer: the second is by the address the first transferred to
C12_NoDoubleTransfer ==
    \A id \in BatchIds :
        \A i \in 1 .. Len(TransfersOf(id)) - 1 :
            /\ TransfersOf(id)[i + 1].from = TransfersOf(id)[i].to
            /\ TransfersOf(id)[i + 1].from # TransfersOf(id)[i].from

\* whichever of the two valid transfers A has pending is included first succeeds
C12_EitherOrderFirstSucceeds ==
    \A id \in BatchIds :
        batchExists[id] =>
            LET A == Last(batches[id].ownerHistory) IN
            \A B \in Senders \ {A} : transferBatchRevert(A, id, B) = NoRevert

\* C12: of two valid transfers of one batch that its owner A has pending, with
\* nothing else on that batch between them, the one included first succeeds
\* and the other fails with Unauthorized, in either order; the history grows by
\* exactly one entry and no state is reached in which both took effect.
C12_ConcurrentTransfersSerialized ==
    /\ [](C12_NoDoubleTransfer /\ C12_EitherOrderFirstSucceeds)
    /\ [][C12_SecondTransferRejected]_vars

\* right after a transfer was included, another transfer was rejected as
\* unauthorized
C12_Witness ==
    /\ events # <<>>
    /\ IsTransferred(Last(events))
    /\ lastCall.op = "transferBatch" /\ lastCall.revert = Unauthorized

(* ------------------------------ C13 ----------------------------------- *)
\* the creation events, and the update events, of batch id in emission order
CreationsOf(id) ==
    SelectSeq(events, LAMBDA e : IsCreated(e) /\ e.batchId = id)
UpdatesOf(id) ==
    SelectSeq(events, LAMBDA e : IsUpdated(e) /\ e.batchId = id)

\* the owner history an observer rebuilds from the log alone: the creator of the
\* creation event, then the `to` of each transfer event
ReplayedHistory(id) ==
    <<CreationsOf(id)[1].creator>> \o
        [i \in 1 .. Len(TransfersOf(id)) |-> TransfersOf(id)[i].to]

\* the metadata reference an observer rebuilds from the log alone
ReplayedReference(id) ==
    IF UpdatesOf(id) # <<>> THEN Last(UpdatesOf(id)).newIpfsHash
    ELSE CreationsOf(id)[1].ipfsHash

C13_LogMatchesStorage ==
    \A id \in BatchIds :
        /\ Len(CreationsOf(id)) = (IF batchExists[id] THEN 1 ELSE 0)
        /\ ~batchExists[id] => TransfersOf(id) = <<>> /\ UpdatesOf(id) = <<>>
        /\ batchExists[id] =>
              /\ batches[id].ownerHistory = ReplayedHistory(id)
              /\ \A i \in 1 .. Len(TransfersOf(id)) :
                    TransfersOf(id)[i].from = ReplayedHistory(id)[i]
              /\ batches[id].ipfsHash = ReplayedReference(id)

\* a call that reverted emitted nothing
C13_RevertEmitsNothing ==
    lastCall'.revert # NoRevert => events' = events

\* C13: the event log alone gives the provenance: every batch's ownerHistory is
\* the creator of its creation event followed by the `to` of its transfer
\* events in emission order, each transfer event's `from` is the owner just
\* before it, the stored reference is the newRef of the latest update event (or
\* the creation event's reference), and failed calls emit nothing.
C13_EventsReconstructProvenance ==
    [](C13_LogMatchesStorage) /\ [][C13_RevertEmitsNothing]_vars

\* a batch was created, transferred and had its reference replaced
C13_Witness ==
    \E id \in BatchIds :
        /\ TransfersOf(id) # <<>>
        /\ UpdatesOf(id) # <<>>
        /\ batches[id].ipfsHash # CreationsOf(id)[1].ipfsHash

(* ------------------------------ C14 ----------------------------------- *)
\* the addresses the ownership check of batch id lets through
AuthorizedFor(id) == {a \in Addresses : onlyCurrentOwner(id, a) = NoRevert}

\* the claim as stated: one current owner per batch, and no address is the
\* current owner of two batches at once
C14_NoAddressOwnsTwoBatches ==
    /\ \A id \in BatchIds : batchExists[id] => Cardinality(AuthorizedFor(id)) = 1
    /\ \A id1, id2 \in BatchIds :
          (batchExists[id1] /\ batchExists[id2] /\ id1 # id2)
              => getCurrentOwner(id1).value # getCurrentOwner(id2).value

\* C14 (amended): every existing batch has exactly one current owner: exactly
\* one address passes its ownership check, the one getCurrentOwner returns, the
\* last entry of its ownerHistory.  One address may be the current owner of
\* several batches at once.
C14_OneOwnerPerBatch ==
    \A id \in BatchIds :
        batchExists[id] =>
            /\ getCurrentOwner(id).revert = NoRevert
            /\ AuthorizedFor(id) = {getCurrentOwner(id).value}
            /\ AuthorizedFor(id) = {Last(batches[id].ownerHistory)}

\* one address is the current owner of two batches, one of which it received by
\* a transfer
C14_Witness ==
    \E id1, id2 \in BatchIds :
        /\ id1 # id2 /\ batchExists[id1] /\ batchExists[id2]
        /\ getCurrentOwner(id1).value = getCurrentOwner(id2).value
        /\ Len(batches[id1].ownerHistory) = 2

(* ------------------------------ C15 ----------------------------------- *)
C15_ExistsUpToTotal ==
    \A id \in BatchIds :
        /\ batchExists[id] <=> (1 <= id /\ id <= getTotalBatches.value)
        /\ batches[id].exists = batchExists[id]

\* no accessor on an existing batch fails
C15_AccessorsFindExisting ==
    \A id \in BatchIds :
        batchExists[id] =>
            /\ getCurrentOwner(id).revert = NoRevert
            /\ getOwnerHistory(id).revert = NoRevert
            /\ getBatchInfo(id).revert = NoRevert
            /\ getOwnerCount(id).revert = NoRevert
            /\ \A a \in Addresses : wasOwner(id, a).revert = NoRevert

\* a batch that exists still exists after every step
C15_ExistenceMonotone ==
    \A id \in BatchIds :
        batchExists[id] => (batchExists'[id] /\ batches'[id].exists)

\* C15: batchExists(id) is true exactly for 1 <= id <= getTotalBatches(), the
\* exists flag of the record agrees with the batchExists mapping, and a batch
\* that exists never stops existing: no accessor on it fails with NotFound again.
C15_ExistenceExactAndPermanent ==
    /\ [](C15_ExistsUpToTotal /\ C15_AccessorsFindExisting)
    /\ [][C15_ExistenceMonotone]_vars

\* two batches exist and the first one has since been transferred
C15_Witness ==
    /\ getTotalBatches.value = 2
    /\ batchExists[1] /\ batchExists[2] /\ ~batchExists[3]
    /\ Len(batches[1].ownerHistory) = 2

(* ------------------------------ C16 ----------------------------------- *)
C16_FreshBatchTimestamps ==
    \A id \in BatchIds :
        batchExists[id] =>
            /\ Len(batches[id].ownerHistory) = 1
                  => batches[id].lastTransferAt = batches[id].createdAt
            /\ batches[id].lastTransferAt >= batches[id].createdAt

C16_TimestampSteps ==
    \A id \in BatchIds :
        /\ batchExists[id] => batches'[id].createdAt = batches[id].createdAt
        /\ (Emits("BatchTransferred") /\ Last(events').batchId = id)
              => batches'[id].lastTransferAt = blockTimestamp
        /\ (batchExists[id] /\ batches'[id].lastTransferAt # batches[id].lastTransferAt)
              => (Emits("BatchTransferred") /\ Last(events').batchId = id)

\* C16: createdAt never changes after creation; lastTransferAt equals createdAt
\* while the batch has had no transfer, is set to the block time by every
\* successful transfer and is changed by nothing else, so it is never below
\* createdAt.
C16_Timestamps == [](C16_FreshBatchTimestamps) /\ [][C16_TimestampSteps]_vars

\* a batch was transferred in a block later than the one that created it
C16_Witness ==
    \E id \in BatchIds :
        /\ Len(batches[id].ownerHistory) = 2
        /\ batches[id].lastTransferAt > batches[id].createdAt

(* ====================== client access layer ========================== *)
(* ----------------------- config/contracts.ts -------------------------- *)
\* the chain ids a provider reports: the two keys of NETWORKS, and two that have
\* no entry, one of them 0
ChainIds == {0, 5, 1337, 31337}
\* getNetwork() itself fails: the provider is unreachable
NoNetwork == -1

NETWORKS == {1337, 31337}

\* network.deployment.contracts?.BatchTracker?.address of each entry of NETWORKS
deploymentAddress == (1337 :> "0xLocalhostDeployment") @@ (31337 :> "0xHardhatDeployment")

MsgUnsupportedNetwork == "Unsupported network. ChainId: .. Supported networks: 1337, 31337"
MsgNotInDeployment == "BatchTracker contract not found in deployment for chainId .."
MsgUnableToCreate ==
    "Unable to create contract instance. Please ensure the contract is deployed and chainId is correct."

\* the thrown message ("" when nothing is thrown) and the resolved address
Resolved(address) == [error |-> "", address |-> address]
Throws(message) == [error |-> message, address |-> ""]

getContractConfig(chainId) ==
    IF chainId \notin NETWORKS THEN Throws(MsgUnsupportedNetwork)
    ELSE IF deploymentAddress[chainId] = "" THEN Throws(MsgNotInDeployment)
    ELSE Resolved(deploymentAddress[chainId])

(* -------------------------- lib/contract.ts --------------------------- *)
\* if (chainId) { getContractConfig(chainId) } else the default of chain 31337:
\* the test is on the truthiness of the number
getBatchTrackerContract(chainId) ==
    IF chainId # 0 THEN getContractConfig(chainId)
    ELSE IF getContractConfig(31337).error = "" THEN getContractConfig(31337)
    ELSE Throws(MsgUnableToCreate)

MsgReverted == "execution reverted"
MsgNetworkError == "could not detect network"
MsgUserRejected == "user rejected action"
MsgNoEvent == "BatchCreated event not found in transaction receipt"
MsgUploadFile == "Failed to upload file to IPFS: .."
MsgUploadJSON == "Failed to upload metadata to IPFS: .."

\* error.message.includes('invalid chainId') || error.message.includes('chainId'),
\* a case-sensitive search
mentionsChainId(message) == message \in {MsgNotInDeployment, MsgUnableToCreate}

\* the messages enhanceError replaces an error with
MsgInsufficientFunds ==
    "Insufficient funds to complete transaction. Please check your account balance."
MsgConnection == "Network connection error. Please check your connection and try again."
MsgRejected == "Transaction was rejected by user."
MsgChainIdMismatch == "ChainId mismatch. Please ensure MetaMask is connected to Hardhat network (chainId 31337)."
MsgExecutionFailed == "Contract execution failed: .."
MsgCallFailed == "Contract call failed: .."
MsgTimeout == "Transaction timeout."

\* the branches of enhanceError an error of this model can take, in source order
enhanceError(error) ==
    IF error.code = "INSUFFICIENT_FUNDS" THEN Error("", MsgInsufficientFunds, "")
    ELSE IF error.code = "NETWORK_ERROR" THEN Error("", MsgConnection, "")
    ELSE IF error.code = "USER_REJECTED" THEN Error("", MsgRejected, "")
    ELSE IF mentionsChainId(error.message) THEN Error("", MsgChainIdMismatch, "")
    ELSE IF error.message = MsgReverted THEN Error("", MsgExecutionFailed, error.reason)
    ELSE IF error.code = "CALL_EXCEPTION" THEN Error("", MsgCallFailed, error.reason)
    ELSE IF error.code = "TIMEOUT" THEN Error("", MsgTimeout, "")
    ELSE error

\* the operations exported by lib/contract.ts
ClientOps ==
    {"createBatch", "createBatchWithMetadata", "transferBatch", "getBatchInfo",
     "getBatchInfoWithMetadata", "getOwnerHistory", "getTotalBatches",
     "getUserOwnedBatches"}
\* those whose body is try { .. } catch (error) { throw enhanceError(error) }
EnhancingOps == {"createBatch", "createBatchWithMetadata", "transferBatch"}

\* the operation ends: it returned, or it threw
return(c) == [c EXCEPT !.pc = "returned"]
throw(c, error) ==
    [c EXCEPT !.pc = "threw",
              !.error = IF c.op \in EnhancingOps THEN enhanceError(error) ELSE error]
Ended == client.pc \in {"returned", "threw"}

\* const contract = getBatchTrackerContract(.., chainId), then on to the first
\* call on the contract
withContract(c, pc) ==
    IF getBatchTrackerContract(c.chainId).error # ""
    THEN throw(c, Error("", getBatchTrackerContract(c.chainId).error, ""))
    ELSE [c EXCEPT !.pc = pc]

\* where each operation awaits next once it holds the contract instance
firstCall(op) ==
    CASE op \in {"createBatch", "transferBatch"} -> "send"
      [] op = "getUserOwnedBatches" -> "getTotalBatches"
      [] OTHER -> "read"

\* String.prototype.toLowerCase on the addresses of this model
toLowerCase(s) ==
    CASE s = "0xA" -> "0xa"
      [] s = "0xB" -> "0xb"
      [] s = "0xC" -> "0xc"
      [] OTHER -> s
\* the userAddress arguments of getUserOwnedBatches: as the ledger spells an
\* address, or in lower case
UserAddresses == {"0xA", "0xa", "0xb"}

\* what awaiting a call on the contract yields besides the contract's own answer
ReplyOk == "ok"
RpcReplies == {ReplyOk, "NETWORK_ERROR"}
SendFailures == {"NETWORK_ERROR", "ACTION_REJECTED"}

\* the error a view call rejects with (NoError when it delivers r.value)
callError(r, reply) ==
    IF reply # ReplyOk THEN Error(reply, MsgNetworkError, "")
    ELSE IF r.revert # NoRevert THEN Error("CALL_EXCEPTION", MsgReverted, r.revert)
    ELSE NoError

\* the BatchInfo built from the tuple contract.getBatchInfo returned
BatchInfo(result) ==
    [batchId |-> result.batchId, currentOwner |-> result.currentOwner,
     ownerCount |-> result.ownerCount, createdAt |-> result.createdAt,
     lastTransferAt |-> result.lastTransferAt,
     ipfsHash |-> IF result.ipfsHash = "" THEN Undefined ELSE result.ipfsHash,
     metadata |-> NoMetadata]

(* --------------------------- lib/pinata.ts ---------------------------- *)
\* what a pin request answers: the content address, or a failure
UploadFailed == "failed"
UploadReplies == (IpfsHashes \ {""}) \cup {UploadFailed}

\* mutant: a failed upload is swallowed and an empty reference is returned
uploadBatchWithAssets_swallows(image, fileReply, jsonReply) ==
    IF image /\ fileReply = UploadFailed
    THEN [error |-> "", metadataHash |-> "", uploads |-> 0]
    ELSE IF jsonReply = UploadFailed
    THEN [error |-> "", metadataHash |-> "", uploads |-> IF image THEN 1 ELSE 0]
    ELSE [error |-> "", metadataHash |-> jsonReply, uploads |-> IF image THEN 2 ELSE 1]

\* uploadFile(image) if an image is given, then uploadJSON(metadata); the first
\* failure is rethrown.  uploads counts the documents pinned.
uploadBatchWithAssets(image, fileReply, jsonReply) ==
    IF image /\ fileReply = UploadFailed
    THEN [error |-> MsgUploadFile, metadataHash |-> "", uploads |-> 0]
    ELSE IF jsonReply = UploadFailed
    THEN [error |-> MsgUploadJSON, metadataHash |-> "", uploads |-> IF image THEN 1 ELSE 0]
    ELSE [error |-> "", metadataHash |-> jsonReply, uploads |-> IF image THEN 2 ELSE 1]

GatewayReplies ==
    {Content("error", "", ""), Content("text", "", ""),
     Content("object", "", "d"), Content("object", "n", "d")}

\* getContent throws on a failed request; the catch of getBatchMetadata and its
\* check of name and description turn everything but a metadata document into null
getBatchMetadata(reply) ==
    IF reply.kind = "error" THEN Null
    ELSE IF reply.kind = "object" /\ reply.name # "" /\ reply.description # "" THEN reply
    ELSE Null

(* ------------------- lib/pinata.ts: metadata documents ---------------- *)
RequiredKeys == {"name", "description", "created_at", "version"}
OptionalKeys == {"image", "attributes", "batch_properties", "external_url"}
PropertyKeys ==
    {"origin", "quality_grade", "harvest_date", "expiry_date", "weight", "location",
     "certifications"}

\* JSON.stringify({pinataContent: metadata, ..}): the text pinned for the
\* document, as the members it holds; a member that is undefined is left out
stringify(metadata) ==
    [k \in RequiredKeys \cup {o \in OptionalKeys : metadata[o] # None} |->
        IF k \in RequiredKeys THEN metadata[k]
        ELSE IF k = "batch_properties"
            THEN [q \in {q \in PropertyKeys : metadata[k][1][q] # None} |->
                     metadata[k][1][q][1]]
        ELSE metadata[k][1]]

\* response.json(): the object the pinned text parses to; a member the text
\* does not hold reads as undefined
parse(json) ==
    [k \in {"kind"} \cup RequiredKeys \cup OptionalKeys |->
        IF k = "kind" THEN "object"
        ELSE IF k \in RequiredKeys THEN json[k]
        ELSE IF k \notin DOMAIN json THEN None
        ELSE IF k = "batch_properties"
            THEN Some([q \in PropertyKeys |->
                          IF q \in DOMAIN json[k] THEN Some(json[k][q]) ELSE None])
        ELSE Some(json[k])]

\* how the gateway answers the request for a pinned text: with the text as
\* application/json, with the text under another content type, or not at all
GatewayAnswers == {"json", "text", "error"}

\* getContent: response.json() for application/json, response.text() otherwise;
\* a failed request throws
getContent(json, answer) ==
    CASE answer = "json" -> parse(json)
      [] answer = "text" -> Content("text", "", "")
      [] OTHER -> Content("error", "", "")

\* the batch_properties and attributes of the documents uploaded
NoProperties == [q \in PropertyKeys |-> None]
AllProperties ==
    [origin |-> Some("Punjab"), quality_grade |-> Some("A"),
     harvest_date |-> Some("2024-01-01"), expiry_date |-> Some("2025-01-01"),
     weight |-> Some("50kg"), location |-> Some("Silo 4"),
     certifications |-> Some(<<"organic">>)]
Attribute == [trait_type |-> "moisture", value |-> 12]

\* the documents uploadJSON is called with
Documents ==
    {BatchMetadata(name, description, image, attributes, properties, url) :
        name \in {"", "Wheat"}, description \in {"", "d"},
        image \in {None, Some("gateway/ipfs/QmX")},
        attributes \in {None, Some(<<>>), Some(<<Attribute>>)},
        properties \in {None, Some(NoProperties), Some(AllProperties)},
        url \in {None, Some("https://example.org")}}

\* the forms createBatchWithMetadata is called with: only the two required
\* fields filled in, and every field filled in
FormDatas ==
    {[EmptyForm EXCEPT !.name = "Wheat", !.description = "d"],
     [name |-> "Wheat", description |-> "d", origin |-> Some("Punjab"),
      quality_grade |-> Some("A"), harvest_date |-> Some("2024-01-01"),
      expiry_date |-> Some("2025-01-01"), weight |-> Some("50kg"),
      location |-> Some("Silo 4"), certifications |-> Some(<<"organic">>),
      external_url |-> Some("https://example.org"),
      attributes |-> Some(<<Attribute>>)]}

\* createBatchWithMetadata: const batchProperties = { origin: formData.origin, .. }
batchProperties(formData) == [q \in PropertyKeys |-> formData[q]]

\* `${PINATA_GATEWAY}/ipfs/${imageHash}`
gatewayURL(imageHash) == "gateway/ipfs/" \o imageHash

\* createBatchMetadata(name, description, imageHash?, properties?, attributes?):
\* there is no parameter for external_url
createBatchMetadata(name, description, imageHash, properties, attributes) ==
    BatchMetadata(name, description,
                  IF imageHash # None THEN Some(gatewayURL(imageHash[1])) ELSE None,
                  Some(IF attributes # None THEN attributes[1] ELSE <<>>),
                  Some(IF properties # None THEN properties[1] ELSE NoProperties),
                  None)

\* the document uploadBatchWithAssets builds from the five arguments it takes of
\* the six that createBatchWithMetadata passes
assetMetadata(formData, image, fileReply) ==
    createBatchMetadata(formData.name, formData.description,
                        IF image THEN Some(fileReply) ELSE None,
                        Some(batchProperties(formData)), formData.attributes)

(* ----------------------- steps of an operation ------------------------ *)
\* the ledger of the client runs stays within MaxClientTxs transactions
clientBound == Len(events') <= MaxClientTxs
ledgerUnchanged == UNCHANGED <<ledgerVars, simple>>

\* startLen is the length of the event log when getUserOwnedBatches was called: the
\* ledger has not changed since then while the log still has that length.
\* an operation is called and its first await, getNetwork(), completes.  Every
\* operation but createBatchWithMetadata then builds the contract instance.
callOperation(op, network, userAddress, formData) ==
    /\ client.pc = "idle"
    /\ LET c == [IdleClient EXCEPT
                    !.op = op, !.chainId = network, !.addr = userAddress,
                    !.formData = formData,
                    !.startLen = IF op = "getUserOwnedBatches" THEN Len(events) ELSE 0] IN
       client' = IF network = NoNetwork
                     THEN throw(c, Error("NETWORK_ERROR", MsgNetworkError, ""))
                 ELSE IF op = "createBatchWithMetadata"
                     THEN [c EXCEPT !.pc = "uploadBatchWithAssets"]
                 ELSE withContract(c, firstCall(op))
    /\ UNCHANGED metadataStorage
    /\ ledgerUnchanged

\* createBatchWithMetadata: await pinataService.uploadBatchWithAssets(..), then
\* the contract instance is built
awaitUploadBatchWithAssets(image, fileReply, jsonReply) ==
    /\ client.pc = "uploadBatchWithAssets"
    /\ LET r == uploadBatchWithAssets(image, fileReply, jsonReply)
           metadata == assetMetadata(client.formData, image, fileReply)
           c == IF r.error # ""
                THEN [client EXCEPT !.image = image, !.uploads = r.uploads]
                ELSE [client EXCEPT !.image = image, !.uploads = r.uploads,
                                    !.metadataHash = r.metadataHash,
                                    !.metadata = metadata,
                                    !.pinned = stringify(metadata)] IN
       client' = IF r.error # "" THEN throw(c, Error("", r.error, ""))
                 ELSE withContract(c, "send")
    /\ UNCHANGED metadataStorage
    /\ ledgerUnchanged

\* the transaction was handed to the node: the call resolves with the pending
\* transaction
sent(c) == [c EXCEPT !.txs = @ + 1, !.pc = "wait"]

\* createBatch and createBatchWithMetadata: await contract.createBatch("") or
\* contract.createBatch(metadataHash)
awaitCreateBatch(signer) ==
    /\ client.pc = "send"
    /\ client.op \in {"createBatch", "createBatchWithMetadata"}
    /\ Len(events) < MaxClientTxs
    /\ client' = sent([client EXCEPT !.signer = signer, !.calls = @ + 1])
    /\ UNCHANGED metadataStorage
    /\ ledgerUnchanged

\* transferBatch: await contract.transferBatch(batchId, newOwner).  The node runs
\* the call to estimate its gas before anything is sent: a call that reverts is
\* rejected there and no transaction is submitted.
awaitTransferBatch(signer, batchId, newOwner) ==
    /\ client.pc = "send"
    /\ client.op = "transferBatch"
    /\ Len(events) < MaxClientTxs
    /\ LET c == [client EXCEPT !.signer = signer, !.batchId = batchId,
                               !.addr = newOwner, !.calls = @ + 1]
           revert == transferBatchRevert(signer, batchId, newOwner) IN
       client' = IF revert # NoRevert
                 THEN throw(c, Error("CALL_EXCEPTION", MsgReverted, revert))
                 ELSE sent(c)
    /\ UNCHANGED metadataStorage
    /\ ledgerUnchanged

\* the call on the contract is made but no transaction reaches the ledger: the
\* node is unreachable or the wallet's user declines
awaitSendFails(code) ==
    /\ client.pc = "send"
    /\ client' = throw([client EXCEPT !.calls = @ + 1],
                       Error(code, IF code = "NETWORK_ERROR" THEN MsgNetworkError
                                   ELSE MsgUserRejected, ""))
    /\ UNCHANGED metadataStorage
    /\ ledgerUnchanged

(* ----------------------- lib/metadata-storage.ts ---------------------- *)
\* mutant: nothing is written
setBatchMetadata_skips(storage, batchId, ipfsHash, stored) == storage

\* MetadataStorage.setBatchMetadata: the write to localStorage is inside a try
\* whose catch only logs; stored tells whether the write went through
setBatchMetadata(storage, batchId, ipfsHash, stored) ==
    IF stored THEN [storage EXCEPT ![batchId] = ipfsHash] ELSE storage

\* receipt.logs.find(.. parsed?.name === 'BatchCreated')
BatchCreatedIn(receipt) == SelectSeq(receipt, LAMBDA e : e.name = "BatchCreated")

\* the rest of the operation once tx.wait() has resolved with the receipt
resumed(c, receipt) ==
    IF c.op = "transferBatch" THEN return([c EXCEPT !.receipt = receipt])
    ELSE IF BatchCreatedIn(receipt) = <<>>
        THEN throw([c EXCEPT !.receipt = receipt], Error("", MsgNoEvent, ""))
    ELSE return([c EXCEPT !.receipt = receipt,
                          !.value = BatchCreatedIn(receipt)[1].batchId])

\* await tx.wait(): the pending transaction is included in a block and the
\* promise resolves with its receipt, whose logs are searched for BatchCreated;
\* createBatchWithMetadata then records the reference in MetadataStorage.  A
\* transfer whose preconditions no longer hold when it is included reverts, and
\* tx.wait() rejects.  Nothing bounds the time until inclusion: tx.wait() is
\* called without a timeout.
awaitWait(stored) ==
    /\ client.pc = "wait"
    /\ UNCHANGED simple
    /\ IF client.op = "transferBatch"
       THEN /\ IF transferBatchRevert(client.signer, client.batchId, client.addr) # NoRevert
               THEN /\ client' = throw(client, Error("CALL_EXCEPTION", MsgReverted, ""))
                    /\ ledgerUnchanged
               ELSE /\ transferBatch(client.signer, client.batchId, client.addr)
                    /\ clientBound
                    /\ client' = resumed(client, <<Last(events')>>)
            /\ UNCHANGED metadataStorage
       ELSE /\ createBatch(client.signer, client.metadataHash)
            /\ clientBound
            /\ client' = resumed(client, <<Last(events')>>)
            /\ metadataStorage' =
                  IF client.op = "createBatchWithMetadata"
                     /\ BatchCreatedIn(<<Last(events')>>) # <<>>
                  THEN setBatchMetadata(metadataStorage, Last(events').batchId,
                                        client.metadataHash, stored)
                  ELSE metadataStorage

\* whether getBatchInfoWithMetadata goes on to fetch: if (batchInfo.ipfsHash)
\* mutant: the fetch is attempted whatever the reference
hasReference_always(info) == TRUE

hasReference(info) == info.ipfsHash # Undefined /\ info.ipfsHash # ""

\* getBatchInfo, getBatchInfoWithMetadata, getOwnerHistory, getTotalBatches: the
\* single view call of the operation
awaitRead(batchId, reply) ==
    /\ client.pc = "read"
    /\ LET r == CASE client.op = "getOwnerHistory" -> getOwnerHistory(batchId)
                  [] client.op = "getTotalBatches" -> getTotalBatches
                  [] OTHER -> getBatchInfo(batchId)
           c == [client EXCEPT !.batchId = batchId, !.calls = @ + 1] IN
       client' =
          IF callError(r, reply) # NoError THEN throw(c, callError(r, reply))
          ELSE CASE client.op = "getOwnerHistory" -> return([c EXCEPT !.history = r.value])
                 [] client.op = "getTotalBatches" -> return([c EXCEPT !.value = r.value])
                 [] client.op = "getBatchInfo" -> return([c EXCEPT !.info = BatchInfo(r.value)])
                 [] OTHER ->
                      IF hasReference(BatchInfo(r.value))
                      THEN [c EXCEPT !.info = BatchInfo(r.value), !.pc = "getBatchMetadata"]
                      ELSE return([c EXCEPT !.info = BatchInfo(r.value)])
    /\ UNCHANGED metadataStorage
    /\ ledgerUnchanged

\* getBatchInfoWithMetadata: await pinataService.getBatchMetadata(ipfsHash)
awaitGetBatchMetadata(reply) ==
    /\ client.pc = "getBatchMetadata"
    /\ client' = return([client EXCEPT !.fetches = @ + 1,
                                       !.info.metadata = getBatchMetadata(reply)])
    /\ UNCHANGED metadataStorage
    /\ ledgerUnchanged

\* getUserOwnedBatches: const totalBatches = await getTotalBatches(provider),
\* outside the try of the loop
scanGetTotalBatches(reply) ==
    /\ client.pc = "getTotalBatches"
    /\ LET r == getTotalBatches
           c == [client EXCEPT !.calls = @ + 1] IN
       client' = IF callError(r, reply) # NoError THEN throw(c, callError(r, reply))
                 ELSE IF 1 <= r.value
                     THEN [c EXCEPT !.total = r.value, !.i = 1, !.pc = "getCurrentOwner"]
                 ELSE return([c EXCEPT !.total = r.value, !.i = 1])
    /\ UNCHANGED metadataStorage
    /\ ledgerUnchanged

\* i++ and the loop test i <= totalBatches
nextBatch(c) ==
    IF c.i + 1 <= c.total THEN [c EXCEPT !.i = @ + 1, !.pc = "getCurrentOwner"]
    ELSE return([c EXCEPT !.i = @ + 1])

\* currentOwner.toLowerCase() === userAddress.toLowerCase()
sameAddress(a, b) == toLowerCase(a) = toLowerCase(b)

\* getUserOwnedBatches: await contract.getCurrentOwner(i) inside the try; the
\* catch skips the batch
scanGetCurrentOwner(reply) ==
    /\ client.pc = "getCurrentOwner"
    /\ LET r == getCurrentOwner(client.i)
           c == [client EXCEPT !.calls = @ + 1] IN
       client' = IF callError(r, reply) # NoError THEN nextBatch(c)
                 ELSE IF sameAddress(r.value, client.addr)
                     THEN [c EXCEPT !.pc = "getBatchInfo"]
                 ELSE nextBatch(c)
    /\ UNCHANGED metadataStorage
    /\ ledgerUnchanged

\* getUserOwnedBatches: await getBatchInfo(provider, i) inside the try, then
\* ownedBatches.push(batchInfo)
scanGetBatchInfo(reply) ==
    /\ client.pc = "getBatchInfo"
    /\ LET r == getBatchInfo(client.i)
           c == [client EXCEPT !.calls = @ + 1] IN
       client' = IF callError(r, reply) # NoError THEN nextBatch(c)
                 ELSE nextBatch([c EXCEPT !.owned = Append(@, BatchInfo(r.value))])
    /\ UNCHANGED metadataStorage
    /\ ledgerUnchanged

\* the caller has taken the outcome of the operation; the next one can be called
takeOutcome ==
    /\ Ended
    /\ client' = IdleClient
    /\ UNCHANGED metadataStorage
    /\ ledgerUnchanged

\* a transaction of another party is included before an operation is called or
\* while it is between two awaits
included == lastCall'.revert = NoRevert /\ clientUnchanged

\* another party's transaction can be included now; a pending transaction of
\* the client keeps its place within the bound
open ==
    /\ ~Ended
    /\ Len(events) + (IF client.pc = "wait" THEN 1 ELSE 0) < MaxClientTxs

ClientNext ==
    \/ \E op \in ClientOps, network \in ChainIds \cup {NoNetwork} :
          \E userAddress \in IF op = "getUserOwnedBatches" THEN UserAddresses
                             ELSE {ZeroAddress} :
              \E formData \in IF op = "createBatchWithMetadata" THEN FormDatas
                                  ELSE {EmptyForm} :
                  callOperation(op, network, userAddress, formData)
    \/ \E image \in BOOLEAN, fileReply \in UploadReplies, jsonReply \in UploadReplies :
          awaitUploadBatchWithAssets(image, fileReply, jsonReply)
    \/ \E signer \in Senders : awaitCreateBatch(signer)
    \/ \E signer \in Senders, id \in CalledIds, to \in Addresses :
          awaitTransferBatch(signer, id, to)
    \/ \E code \in SendFailures : awaitSendFails(code)
    \/ \E stored \in BOOLEAN : awaitWait(stored)
    \/ \E id \in CalledIds, reply \in RpcReplies : awaitRead(id, reply)
    \/ \E reply \in GatewayReplies : awaitGetBatchMetadata(reply)
    \/ \E reply \in RpcReplies : scanGetTotalBatches(reply)
    \/ \E reply \in RpcReplies : scanGetCurrentOwner(reply)
    \/ \E reply \in RpcReplies : scanGetBatchInfo(reply)
    \/ takeOutcome
    \/ open /\ \E sender \in Senders, h \in IpfsHashes :
                  createBatch(sender, h) /\ included
    \/ open /\ \E sender \in Senders, id \in CalledIds, to \in Addresses :
                  transferBatch(sender, id, to) /\ included
    \/ open /\ \E sender \in Senders, id \in CalledIds, h \in IpfsHashes :
                  updateMetadata(sender, id, h) /\ included

ClientSpec == Init /\ [][ClientNext]_vars

(* ------------------------------ C17 ----------------------------------- *)
UploadFailures == {MsgUploadFile, MsgUploadJSON}

\* the step in which an upload of createBatchWithMetadata fails ends the call
\* with the upload's error and leaves the ledger as it was
C17_FailedUploadAborts ==
    \A image \in BOOLEAN, fileReply \in UploadReplies, jsonReply \in UploadReplies :
        (/\ client.pc = "uploadBatchWithAssets"
         /\ (image /\ fileReply = UploadFailed) \/ jsonReply = UploadFailed
         /\ awaitUploadBatchWithAssets(image, fileReply, jsonReply))
        => /\ client'.pc = "threw"
           /\ client'.error.message \in UploadFailures
           /\ client'.calls = 0 /\ client'.txs = 0
           /\ UNCHANGED <<batches, batchExists, nextBatchId, events>>

\* a call of createBatchWithMetadata that has submitted its transaction holds the
\* content address of an uploaded document, and one that ended with an upload
\* error has called nothing on the contract
C17_SubmitsOnlyAfterUpload ==
    client.op = "createBatchWithMetadata" =>
        /\ client.calls > 0 =>
              (client.metadataHash # "" /\ client.uploads >= 1 /\ client.pc # "uploadBatchWithAssets")
        /\ (client.pc = "threw" /\ client.error.message \in UploadFailures) =>
              (client.calls = 0 /\ client.txs = 0 /\ client.receipt = <<>>)

\* C17: in createBatchWithMetadata, when the image upload or the upload of the
\* metadata document fails, the operation ends with an error, no createBatch
\* transaction is submitted for that call and the ledger (counter, batches) is
\* left unchanged by it.
C17_UploadFailureSubmitsNothing ==
    [](C17_SubmitsOnlyAfterUpload) /\ [][C17_FailedUploadAborts]_vars

\* the image was pinned, the upload of the document failed, and the call ended
\* with that error on a ledger that already holds a batch
C17_Witness ==
    /\ client.op = "createBatchWithMetadata"
    /\ client.pc = "threw"
    /\ client.error.message = MsgUploadJSON
    /\ client.image /\ client.uploads = 1
    /\ client.txs = 0
    /\ nextBatchId = 2

(* ------------------------------ C18 ----------------------------------- *)
\* the provider answered getNetwork() with a chain id that has no entry in NETWORKS
UnsupportedChain ==
    client.op # "" /\ client.chainId # NoNetwork /\ client.chainId \notin NETWORKS

\* C18: an operation of the access layer called while the provider reports a
\* chain id without a deployment descriptor (0 included) calls no contract
\* instance and ends with the unsupported-network error.  (A
\* createBatchWithMetadata that is still uploading, or that an upload has
\* already failed, has not reached the descriptor and is not judged here.)
C18_UnsupportedChainFailsFast ==
    UnsupportedChain =>
        /\ client.calls = 0 /\ client.txs = 0
        /\ \/ client.pc = "threw" /\ client.error.message = MsgUnsupportedNetwork
           \/ /\ client.op = "createBatchWithMetadata"
              /\ \/ client.pc = "uploadBatchWithAssets"
                 \/ client.pc = "threw" /\ client.error.message \in UploadFailures

\* chain id 0: the operation went on with the descriptor of chain 31337 and
\* has called the contract
C18_Witness ==
    /\ client.chainId = 0
    /\ client.op = "transferBatch"
    /\ client.pc = "returned"
    /\ client.txs = 1

(* ------------------------------ C19 ----------------------------------- *)
MetadataOp == client.op = "getBatchInfoWithMetadata"

\* the read of the record succeeded: the call goes on with the record, and
\* returns it at once, without a fetch, when its reference is empty
C19_ReadThenEnrich ==
    \A id \in BatchIds :
        (/\ MetadataOp /\ client.pc = "read"
         /\ getBatchInfo(id).revert = NoRevert
         /\ awaitRead(id, ReplyOk))
        => /\ client'.info = BatchInfo(getBatchInfo(id).value)
           /\ client'.pc \in {"returned", "getBatchMetadata"}
           /\ batches[id].ipfsHash = "" =>
                 (client'.pc = "returned" /\ client'.fetches = 0)

\* whatever the gateway answers, the call returns the record it read, with the
\* metadata document, or with null when the answer is not one
C19_FetchNeverFails ==
    (MetadataOp /\ client.pc = "getBatchMetadata" /\ client' # client)
    => /\ client'.pc = "returned"
       /\ client'.error = NoError
       /\ client'.info = [client.info EXCEPT !.metadata = client'.info.metadata]
       /\ \/ client'.info.metadata = Null
          \/ /\ client'.info.metadata.kind = "object"
             /\ client'.info.metadata.name # ""
             /\ client'.info.metadata.description # ""

\* a fetch is attempted only for a non-empty reference, and the call throws only
\* when the read of the record itself failed
C19_NoFetchWithoutReference ==
    MetadataOp =>
        /\ (client.fetches > 0 \/ client.pc = "getBatchMetadata") =>
              client.info.ipfsHash \in (IpfsHashes \ {""})
        /\ client.pc = "threw" =>
              (client.fetches = 0 /\ client.info = NoBatchInfo)

\* C19: getBatchInfoWithMetadata returns the on-chain record whenever the read of
\* the record succeeds: with an empty reference no fetch is attempted, and when
\* the fetch fails or yields something that is not a metadata document the
\* record is returned with metadata absent, never an error.
C19_MetadataDegradesGracefully ==
    /\ [](C19_NoFetchWithoutReference)
    /\ [][C19_ReadThenEnrich /\ C19_FetchNeverFails]_vars

\* the record carries a reference, the fetch did not yield a metadata document,
\* and the record was returned
C19_Witness ==
    /\ MetadataOp /\ client.pc = "returned"
    /\ client.fetches = 1
    /\ client.info.ipfsHash = "QmX"
    /\ client.info.metadata = Null
    /\ client.info.batchId = 1

(* ------------------------------ C20 ----------------------------------- *)
\* the batches 1..n whose current owner is addr up to letter case, in ascending
\* order of their ids, as getBatchInfo describes them
RECURSIVE OwnedUpTo(_, _)
OwnedUpTo(n, addr) ==
    IF n = 0 THEN <<>>
    ELSE OwnedUpTo(n - 1, addr) \o
         (IF toLowerCase(getCurrentOwner(n).value) = toLowerCase(addr)
          THEN <<BatchInfo(getBatchInfo(n).value)>> ELSE <<>>)

\* C20: on a supported network and a ledger unchanged since the call,
\* getUserOwnedBatches(provider, addr) has visited every id from 1 to getTotalBatches() and returns exactly the
\* batches whose current owner is addr up to letter case, ascending, each once.
C20_ScanReturnsOwnedBatches ==
    (/\ client.op = "getUserOwnedBatches"
     /\ client.chainId \in NETWORKS
     /\ client.pc = "returned"
     /\ Len(events) = client.startLen)
    => /\ client.total = getTotalBatches.value
       /\ client.i = client.total + 1
       /\ client.owned = OwnedUpTo(client.total, client.addr)

\* the scan returned nothing although the address, given in lower case, owns
\* a batch of the unchanged ledger
C20_Witness ==
    /\ client.op = "getUserOwnedBatches"
    /\ client.chainId \in NETWORKS
    /\ client.pc = "returned"
    /\ Len(events) = client.startLen
    /\ client.addr = "0xa"
    /\ client.owned = <<>>
    /\ OwnedUpTo(client.total, client.addr) # <<>>

(* ------------------------------ C21 ----------------------------------- *)
\* the kind a caller can read off an error that reaches it: an error that still
\* carries the code of the transport or of the wallet has none ("")
kindOf(error) ==
    CASE error.code # "" -> ""
      [] error.message \in {MsgConnection, MsgTimeout} -> "TransientNetworkFailure"
      [] error.message = MsgRejected -> "TransactionRejected"
      [] error.message \in {MsgUnsupportedNetwork, MsgChainIdMismatch} -> "UnsupportedNetwork"
      [] error.message \in UploadFailures -> "OffChainStorageFailure"
      [] error.message \in {MsgExecutionFailed, MsgCallFailed} ->
            CASE error.reason = NotFound -> "NotFound"
              [] error.reason = Unauthorized -> "Unauthorized"
              [] error.reason \in InvalidArgument -> "InvalidArgument"
              [] OTHER -> ""
      [] OTHER -> ""

\* C21: every failure that reaches the caller of an operation of the access layer
\* has been classified into a kind of the taxonomy; no error of the transport or
\* of the protocol is handed over as it was raised.
C21_FailuresAreClassified ==
    client.pc = "threw" => kindOf(client.error) # ""

\* getBatchInfo of a batch that does not exist rejected with the CALL_EXCEPTION
\* of the provider, as raised
C21_Witness ==
    /\ client.op = "getBatchInfo"
    /\ client.pc = "threw"
    /\ client.error = Error("CALL_EXCEPTION", MsgReverted, NotFound)

(* ------------------------------ C22 ----------------------------------- *)
\* the steps the client takes by itself: each await on the provider, the wallet,
\* the pinning service or the gateway settles, with an answer or an error.  The
\* inclusion of a pending transaction, on which awaitWait depends, is not among
\* them.
clientStep ==
    \/ \E op \in ClientOps, network \in ChainIds \cup {NoNetwork} :
          \E userAddress \in IF op = "getUserOwnedBatches" THEN UserAddresses
                             ELSE {ZeroAddress} :
              \E formData \in IF op = "createBatchWithMetadata" THEN FormDatas
                                  ELSE {EmptyForm} :
                  callOperation(op, network, userAddress, formData)
    \/ \E image \in BOOLEAN, fileReply \in UploadReplies, jsonReply \in UploadReplies :
          awaitUploadBatchWithAssets(image, fileReply, jsonReply)
    \/ \E signer \in Senders : awaitCreateBatch(signer)
    \/ \E signer \in Senders, id \in CalledIds, to \in Addresses :
          awaitTransferBatch(signer, id, to)
    \/ \E code \in SendFailures : awaitSendFails(code)
    \/ \E id \in CalledIds, reply \in RpcReplies : awaitRead(id, reply)
    \/ \E reply \in GatewayReplies : awaitGetBatchMetadata(reply)
    \/ \E reply \in RpcReplies : scanGetTotalBatches(reply)
    \/ \E reply \in RpcReplies : scanGetCurrentOwner(reply)
    \/ \E reply \in RpcReplies : scanGetBatchInfo(reply)

\* the access layer where every await but tx.wait() settles
FairClientSpec == ClientSpec /\ WF_vars(clientStep)

\* C22: a call of createBatch, createBatchWithMetadata or transferBatch
\* eventually ends, returning or throwing; in particular a call whose
\* transaction is never included stops waiting and throws.
C22_WritesEventuallyEnd ==
    (client.op \in EnhancingOps /\ ~Ended) ~> Ended

\* the transaction of createBatch is pending and the call is inside tx.wait()
C22_Witness ==
    /\ client.op = "createBatch"
    /\ client.pc = "wait"
    /\ client.txs = 1
    /\ client.receipt = <<>>

\* await pinataService.uploadJSON(metadata): the text is pinned and its content
\* address returned, or the request fails
uploadJSON(metadata, reply) ==
    /\ client.pc = "idle"
    /\ LET c == [IdleClient EXCEPT !.op = "uploadJSON", !.metadata = metadata] IN
       client' = IF reply = UploadFailed THEN throw(c, Error("", MsgUploadJSON, ""))
                 ELSE return([c EXCEPT !.uploads = 1, !.metadataHash = reply,
                                       !.pinned = stringify(metadata)])
    /\ UNCHANGED metadataStorage
    /\ ledgerUnchanged

\* await pinataService.getBatchMetadata(ipfsHash) with the content address that
\* uploadJSON returned
fetchBatchMetadata(answer) ==
    /\ client.op = "uploadJSON"
    /\ client.pc = "returned"
    /\ client' = [client EXCEPT !.op = "getBatchMetadata", !.fetches = @ + 1,
                                !.info.metadata =
                                    getBatchMetadata(getContent(client.pinned, answer))]
    /\ UNCHANGED metadataStorage
    /\ ledgerUnchanged

PinataNext ==
    \/ \E metadata \in Documents, reply \in UploadReplies : uploadJSON(metadata, reply)
    \/ \E answer \in GatewayAnswers : fetchBatchMetadata(answer)
    \/ takeOutcome

\* the pinning service and the gateway, used by themselves
PinataSpec == Init /\ [][PinataNext]_vars

(* ------------------------------ C23 ----------------------------------- *)
\* C23: a metadata document that was uploaded and is fetched by the content
\* address the upload returned, the gateway serving the pinned JSON, comes back
\* from getBatchMetadata equal to the uploaded one in name, description,
\* created_at, version, image, attributes, batch_properties and external_url.
C23_MetadataRoundTrip ==
    [][fetchBatchMetadata("json") => client'.info.metadata = client.metadata]_vars

\* a document with an empty name was pinned, and fetching it gave null
C23_Witness ==
    /\ client.op = "getBatchMetadata"
    /\ client.metadata.name = "" /\ client.metadata.description = "d"
    /\ client.pinned = stringify(client.metadata)
    /\ client.info.metadata = Null

(* ------- contract BatchTracker without metadata (lines 246-439) ------- *)
\* require(.., "Only current owner can transfer batch")
SimpleUnauthorized == "Only current owner can transfer batch"

SimpleBatchCreated(batchId, creator, timestamp) ==
    [name |-> "BatchCreated", batchId |-> batchId, creator |-> creator,
     timestamp |-> timestamp]

simpleBatchMustExist(_batchId) ==
    IF simple.batchExists[_batchId] THEN NoRevert ELSE NotFound

simpleOnlyCurrentOwner(_batchId, sender) ==
    IF ~simple.batchExists[_batchId] THEN NotFound
    ELSE IF Len(simple.batches[_batchId].ownerHistory) = 0 THEN ArithmeticPanic
    ELSE IF Last(simple.batches[_batchId].ownerHistory) # sender THEN SimpleUnauthorized
    ELSE NoRevert

simpleGetCurrentOwner(_batchId) ==
    IF simpleBatchMustExist(_batchId) # NoRevert THEN Reverts(simpleBatchMustExist(_batchId))
    ELSE IF Len(simple.batches[_batchId].ownerHistory) = 0 THEN Reverts(ArithmeticPanic)
    ELSE Returns(Last(simple.batches[_batchId].ownerHistory))

simpleGetOwnerHistory(_batchId) ==
    IF simpleBatchMustExist(_batchId) # NoRevert THEN Reverts(simpleBatchMustExist(_batchId))
    ELSE Returns(simple.batches[_batchId].ownerHistory)

simpleGetBatchInfo(_batchId) ==
    IF simpleBatchMustExist(_batchId) # NoRevert THEN Reverts(simpleBatchMustExist(_batchId))
    ELSE IF Len(simple.batches[_batchId].ownerHistory) = 0 THEN Reverts(ArithmeticPanic)
    ELSE LET batch == simple.batches[_batchId] IN
         Returns([batchId |-> batch.batchId,
                  currentOwner |-> Last(batch.ownerHistory),
                  ownerCount |-> Len(batch.ownerHistory),
                  createdAt |-> batch.createdAt,
                  lastTransferAt |-> batch.lastTransferAt])

simpleGetTotalBatches ==
    IF simple.nextBatchId - 1 < 0 THEN Reverts(ArithmeticPanic)
    ELSE Returns(simple.nextBatchId - 1)

simpleGetOwnerCount(_batchId) ==
    IF simpleBatchMustExist(_batchId) # NoRevert THEN Reverts(simpleBatchMustExist(_batchId))
    ELSE Returns(Len(simple.batches[_batchId].ownerHistory))

simpleWasOwner(_batchId, _address) ==
    IF simpleBatchMustExist(_batchId) # NoRevert THEN Reverts(simpleBatchMustExist(_batchId))
    ELSE LET history == simple.batches[_batchId].ownerHistory IN
         Returns(\E i \in 1 .. Len(history) : history[i] = _address)

\* the writes of createBatch to batches[batchId]
simpleCreatedBatch(batch, batchId, sender) ==
    [batch EXCEPT !.batchId = batchId,
                  !.ownerHistory = Append(@, sender),
                  !.exists = TRUE,
                  !.createdAt = blockTimestamp,
                  !.lastTransferAt = blockTimestamp]

\* createBatch(), in the block being built
simpleCreateBatch(sender) ==
    simple' = [simple EXCEPT
        !.nextBatchId = @ + 1,
        !.batches[simple.nextBatchId] = simpleCreatedBatch(@, simple.nextBatchId, sender),
        !.batchExists[simple.nextBatchId] = TRUE,
        !.events = Append(@, SimpleBatchCreated(simple.nextBatchId, sender, blockTimestamp)),
        !.lastCall = Call("createBatch", NoRevert, simple.nextBatchId)]

\* mutant: the require on the zero address is missing
simpleTransferBatchRevert_noZeroCheck(sender, _batchId, _newOwner) ==
    IF simpleBatchMustExist(_batchId) # NoRevert THEN simpleBatchMustExist(_batchId)
    ELSE IF simpleOnlyCurrentOwner(_batchId, sender) # NoRevert
        THEN simpleOnlyCurrentOwner(_batchId, sender)
    ELSE IF _newOwner = simpleGetCurrentOwner(_batchId).value THEN SameOwnerTarget
    ELSE NoRevert

\* the modifiers and requires of transferBatch, in the order they run
simpleTransferBatchRevert(sender, _batchId, _newOwner) ==
    IF simpleBatchMustExist(_batchId) # NoRevert THEN simpleBatchMustExist(_batchId)
    ELSE IF simpleOnlyCurrentOwner(_batchId, sender) # NoRevert
        THEN simpleOnlyCurrentOwner(_batchId, sender)
    ELSE IF _newOwner = ZeroAddress THEN ZeroAddressTarget
    ELSE IF _newOwner = simpleGetCurrentOwner(_batchId).value THEN SameOwnerTarget
    ELSE NoRevert

\* the writes of transferBatch to batches[_batchId]
simpleTransferredBatch(batch, _newOwner) ==
    [batch EXCEPT !.ownerHistory = Append(@, _newOwner),
                  !.lastTransferAt = blockTimestamp]

simpleTransferBatch(sender, _batchId, _newOwner) ==
    LET revert == simpleTransferBatchRevert(sender, _batchId, _newOwner) IN
    simple' =
        IF revert # NoRevert
        THEN [simple EXCEPT !.lastCall = Call("transferBatch", revert, 0)]
        ELSE [simple EXCEPT
                !.batches[_batchId] = simpleTransferredBatch(@, _newOwner),
                !.events = Append(@, BatchTransferred(_batchId,
                                         simpleGetCurrentOwner(_batchId).value,
                                         _newOwner, blockTimestamp)),
                !.lastCall = Call("transferBatch", NoRevert, 0)]

\* the two contracts side by side: every transaction is sent to both in the same
\* block, createBatch with the empty reference, and updateMetadata is not used
VariantNext ==
    \/ \E sender \in Senders :
          /\ createBatch(sender, "")
          /\ simpleCreateBatch(sender)
          /\ UNCHANGED <<client, metadataStorage>>
    \/ \E sender \in Senders, id \in CalledIds, to \in Addresses :
          /\ transferBatch(sender, id, to)
          /\ simpleTransferBatch(sender, id, to)
          /\ UNCHANGED <<client, metadataStorage>>
    \/ mineBlock /\ UNCHANGED <<client, metadataStorage, simple>>

VariantSpec == Init /\ [][VariantNext]_vars

(* ------------------------------ C24 ----------------------------------- *)
\* the kind of failure a revert reason stands for
failureKind(revert) ==
    CASE revert = NoRevert -> "none"
      [] revert = NotFound -> "NotFound"
      [] revert \in {Unauthorized, SimpleUnauthorized} -> "Unauthorized"
      [] revert \in InvalidArgument -> "InvalidArgument"
      [] OTHER -> revert

\* a result of the contract with metadata, without its metadata reference
withoutReference(r) ==
    IF r.revert # NoRevert THEN r
    ELSE Returns([batchId |-> r.value.batchId, currentOwner |-> r.value.currentOwner,
                  ownerCount |-> r.value.ownerCount, createdAt |-> r.value.createdAt,
                  lastTransferAt |-> r.value.lastTransferAt])

\* the ownership state of the two contracts is the same
C24_SameOwnershipState ==
    /\ simple.nextBatchId = nextBatchId
    /\ simple.batchExists = batchExists
    /\ \A id \in BatchIds :
          /\ simple.batches[id].batchId = batches[id].batchId
          /\ simple.batches[id].ownerHistory = batches[id].ownerHistory
          /\ simple.batches[id].exists = batches[id].exists
          /\ simple.batches[id].createdAt = batches[id].createdAt
          /\ simple.batches[id].lastTransferAt = batches[id].lastTransferAt
          /\ batches[id].ipfsHash = ""

\* the last transaction and every read accessor give the same result, or fail
\* with the same kind of failure
C24_SameResults ==
    /\ simple.lastCall.op = lastCall.op \/ lastCall.op = "mineBlock"
    /\ lastCall.op # "mineBlock" =>
          /\ failureKind(simple.lastCall.revert) = failureKind(lastCall.revert)
          /\ simple.lastCall.ret = lastCall.ret
    /\ Len(simple.events) = Len(events)
    /\ simpleGetTotalBatches = getTotalBatches
    /\ \A id \in BatchIds :
          /\ simpleGetCurrentOwner(id) = getCurrentOwner(id)
          /\ simpleGetOwnerHistory(id) = getOwnerHistory(id)
          /\ simpleGetBatchInfo(id) = withoutReference(getBatchInfo(id))
          /\ simpleGetOwnerCount(id) = getOwnerCount(id)
          /\ \A a \in Addresses : simpleWasOwner(id, a) = wasOwner(id, a)

\* C24: sent the same transactions in the same blocks, createBatch with the
\* empty metadata reference and no updateMetadata, the contract without
\* metadata and the contract with metadata return the same results and the
\* same kinds of failure for every call, and hold the same counter, existence
\* flags, owner histories and timestamps after every step.
C24_SimpleVariantIsSubset == C24_SameOwnershipState /\ C24_SameResults

\* both contracts hold a transferred batch and have just rejected a transfer by
\* an address that is not its owner, each with its own message
C24_Witness ==
    /\ lastCall = Call("transferBatch", Unauthorized, 0)
    /\ simple.lastCall = Call("transferBatch", SimpleUnauthorized, 0)
    /\ Len(simple.batches[1].ownerHistory) = 2
    /\ batches[1].lastTransferAt > batches[1].createdAt

(* ------------------------------ C25 ----------------------------------- *)
WithMetadata == client.op = "createBatchWithMetadata"

\* where a call of createBatchWithMetadata stands tells what it has done: the
\* uploads come first, the image before the document that embeds its address;
\* then the transaction is submitted with the address of the document, then
\* awaited, then its event is read
C25_StepsInOrder ==
    WithMetadata =>
        /\ client.pc = "uploadBatchWithAssets" =>
              (client.uploads = 0 /\ client.calls = 0 /\ client.txs = 0)
        /\ client.pc \in {"send", "wait", "returned"} =>
              /\ client.metadataHash \in IpfsHashes \ {""}
              /\ client.uploads = (IF client.image THEN 2 ELSE 1)
              /\ client.image <=> client.metadata.image # None
              /\ client.pinned = stringify(client.metadata)
        /\ client.pc = "send" => (client.calls = 0 /\ client.txs = 0)
        /\ client.pc = "wait" =>
              (client.calls = 1 /\ client.txs = 1 /\ client.receipt = <<>>)
        /\ client.pc = "returned" =>
              /\ client.calls = 1 /\ client.txs = 1
              /\ Len(client.receipt) = 1
              /\ client.receipt[1].name = "BatchCreated"
              /\ client.receipt[1].creator = client.signer
              /\ client.receipt[1].ipfsHash = client.metadataHash
              /\ client.value = client.receipt[1].batchId

\* the step in which the call returns: the id returned is that of the event of
\* the call's own transaction, and the ledger holds the uploaded address for it
C25_ReturnsCreatedBatch ==
    (WithMetadata /\ client.pc = "wait" /\ client'.pc = "returned")
    => /\ client'.value = Last(events').batchId
       /\ client'.receipt = <<Last(events')>>
       /\ Len(events') = Len(events) + 1
       /\ batches'[client'.value].ipfsHash = client.metadataHash
       /\ batches'[client'.value].ownerHistory = <<client.signer>>

C25_IndexedWhenStored ==
    \A stored \in BOOLEAN :
        (WithMetadata /\ awaitWait(stored) /\ client'.pc = "returned")
        => IF stored
           THEN metadataStorage' =
                    [metadataStorage EXCEPT ![client'.value] = client.metadataHash]
           ELSE metadataStorage' = metadataStorage

embedsProperties(metadata, formData) ==
    /\ metadata.batch_properties # None
    /\ \A q \in PropertyKeys : metadata.batch_properties[1][q] = formData[q]

\* the document holds the attributes of the form (none given: an empty list)
embedsAttributes(metadata, formData) ==
    metadata.attributes =
        Some(IF formData.attributes # None THEN formData.attributes[1] ELSE <<>>)

\* C26: the metadata document uploaded by createBatchWithMetadata embeds the
\* caller's name and description, every batch property (origin, quality_grade,
\* harvest_date, expiry_date, weight, location, certifications), the
\* attributes and the external_url, and the content address of the image
\* when one was supplied.
C26_DocumentEmbedsForm ==
    (WithMetadata /\ client.pinned # <<>>)
    => /\ client.metadata.name = client.formData.name
       /\ client.metadata.description = client.formData.description
       /\ embedsProperties(client.metadata, client.formData)
       /\ embedsAttributes(client.metadata, client.formData)
       /\ client.image => client.metadata.image = Some(gatewayURL("QmX"))
       /\ client.metadata.external_url = client.formData.external_url
       /\ client.pinned = stringify(client.metadata)

\* a form with an external_url was uploaded with its image, and the pinned
\* document has no external_url
C26_Witness ==
    /\ WithMetadata /\ client.pc = "returned"
    /\ client.formData.external_url = Some("https://example.org")
    /\ client.image
    /\ "external_url" \notin DOMAIN client.pinned
    /\ client.pinned["image"] = gatewayURL("QmX")
    /\ client.pinned["batch_properties"]["origin"] = "Punjab"

(* ------------------ components/transfer-batch.tsx --------------------- *)
\* what the user has typed or scanned into the address field: nothing, blanks,
\* text that is not an address, the zero address, addresses, a padded address
TypedAddresses == {"", "  ", "0xZZ", ZeroAddress, "0xA", "0xB", " 0xB "}

\* String.prototype.trim on the texts of this model
trim(s) ==
    CASE s = "  " -> ""
      [] s = " 0xB " -> "0xB"
      [] OTHER -> s

\* /^0x[a-fA-F0-9]{40}$/.test(..): the addresses of this model stand for texts of
\* that form, the zero address among them
matchesAddress(s) == s \in Addresses

MsgEnterAddress == "Please enter a valid address"
MsgEnterEthereumAddress == "Please enter a valid Ethereum address"

\* the batch prop of the component: null, or the BatchInfo of a batch of the ledger
BatchProps ==
    {NoBatchInfo} \cup {BatchInfo(getBatchInfo(id).value) : id \in 1 .. (nextBatchId - 1)}

\* handleTransfer up to the first await of transferBatch(signer, batch.batchId,
\* newOwner.trim()): the two tests of the text, then getNetwork() and the contract
\* instance.  The errors of the handler itself and those of transferBatch end in
\* the same catch, which shows the message.
handleTransfer(hasSigner, batch, newOwner, network) ==
    /\ client.pc = "idle"
    /\ LET h == [IdleClient EXCEPT !.handler = "handleTransfer",
                                   !.newOwner = newOwner, !.info = batch]
           c == [h EXCEPT !.op = "transferBatch", !.chainId = network,
                          !.batchId = batch.batchId, !.addr = trim(newOwner)] IN
       client' = IF ~hasSigner \/ batch = NoBatchInfo THEN return(h)
                 ELSE IF trim(newOwner) = "" THEN throw(h, Error("", MsgEnterAddress, ""))
                 ELSE IF ~matchesAddress(trim(newOwner))
                     THEN throw(h, Error("", MsgEnterEthereumAddress, ""))
                 ELSE IF network = NoNetwork
                     THEN throw(c, Error("NETWORK_ERROR", MsgNetworkError, ""))
                 ELSE withContract(c, "send")
    /\ UNCHANGED metadataStorage
    /\ ledgerUnchanged

\* the transfer dialog on top of the access layer and the ledger
FormNext ==
    \/ \E hasSigner \in BOOLEAN, batch \in BatchProps, newOwner \in TypedAddresses,
          network \in ChainIds \cup {NoNetwork} :
              handleTransfer(hasSigner, batch, newOwner, network)
    \/ \E signer \in Senders : awaitTransferBatch(signer, client.batchId, client.addr)
    \/ \E code \in SendFailures : awaitSendFails(code)
    \/ \E stored \in BOOLEAN : awaitWait(stored)
    \/ takeOutcome
    \/ open /\ \E sender \in Senders, h \in IpfsHashes :
                  createBatch(sender, h) /\ included
    \/ open /\ \E sender \in Senders, id \in CalledIds, to \in Addresses :
                  transferBatch(sender, id, to) /\ included

FormSpec == Init /\ [][FormNext]_vars

(* ------------------------------ C27 ----------------------------------- *)
\* an argument the dialog can tell is invalid: text that is not an address, the
\* zero address, or the owner named by the BatchInfo the dialog was given
invalidTarget(to, batch) ==
    \/ ~matchesAddress(to)
    \/ to = ZeroAddress
    \/ sameAddress(to, batch.currentOwner)

Submitted == client.handler = "handleTransfer" /\ client.info # NoBatchInfo

\* C27: when handleTransfer is given an argument that it can tell is invalid
\* (malformed address, zero address, the known current owner), transferBatch of
\* the access layer is not invoked, no network call is made and no transaction
\* is submitted.
C27_InvalidTargetRejectedEarly ==
    (Submitted /\ invalidTarget(trim(client.newOwner), client.info))
    => /\ client.op # "transferBatch"
       /\ client.calls = 0 /\ client.txs = 0
       /\ Ended

\* the zero address went through the dialog to the contract, which rejected it
C27_Witness ==
    /\ Submitted
    /\ client.newOwner = ZeroAddress
    /\ client.op = "transferBatch"
    /\ client.calls = 1
    /\ client.pc = "threw"
    /\ client.error.reason = ZeroAddressTarget

(* ------------------------------ C28 ----------------------------------- *)
\* no owner history holds the zero address
C28_NoZeroAddressOwner ==
    \A id \in BatchIds : \A i \in 1 .. Len(batches[id].ownerHistory) :
        batches[id].ownerHistory[i] # ZeroAddress

\* no owner history holds the same address twice in a row
C28_NoRepeatedOwner ==
    \A id \in BatchIds : \A i \in 1 .. (Len(batches[id].ownerHistory) - 1) :
        batches[id].ownerHistory[i] # batches[id].ownerHistory[i + 1]

\* C28: transactions being signed by addresses other than the zero address, no
\* ownerHistory contains the zero address and no two adjacent entries of an
\* ownerHistory are equal.
C28_HistoryWellFormed == C28_NoZeroAddressOwner /\ C28_NoRepeatedOwner

\* a batch came back to its creator: its history holds one address twice, not in
\* a row, after transfers to the zero address and to the owner were rejected
C28_Witness ==
    /\ batches[1].ownerHistory = <<"0xA", "0xB", "0xA">>
    /\ lastCall.op = "transferBatch"
    /\ lastCall.revert \in InvalidArgument

(* ------------------------------ C29 ----------------------------------- *)
\* C29: every BatchInfo that getUserOwnedBatches(provider, addr) has collected
\* names addr, up to letter case, as its currentOwner, whatever transactions are
\* included between the reads of the scan.
C29_ScanReturnsOnlyOwned ==
    (client.op = "getUserOwnedBatches" /\ client.chainId \in NETWORKS)
    => \A k \in 1 .. Len(client.owned) :
          sameAddress(client.owned[k].currentOwner, client.addr)

\* the scan for 0xA returned batch 1 with 0xB as its current owner: the batch
\* was transferred between getCurrentOwner(1) and getBatchInfo(provider, 1)
C29_Witness ==
    /\ client.op = "getUserOwnedBatches"
    /\ client.chainId \in NETWORKS
    /\ client.pc = "returned"
    /\ client.addr = "0xA"
    /\ Len(client.owned) = 1
    /\ client.owned[1].batchId = 1
    /\ client.owned[1].currentOwner = "0xB"
    /\ getCurrentOwner(1).value = "0xB"

(* ------------------------------ C30 ----------------------------------- *)
\* C30: a call of createBatchWithMetadata on a network without deployment
\* descriptor whose uploads succeeded fails with the configuration error and
\* submits nothing to the ledger, the documents having been uploaded before.
C30_NoDescriptorFailsAfterUploads ==
    (/\ WithMetadata /\ UnsupportedChain
     /\ client.pc # "uploadBatchWithAssets"
     /\ ~(client.pc = "threw" /\ client.error.message \in UploadFailures))
    => /\ client.pc = "threw"
       /\ client.error.message = MsgUnsupportedNetwork
       /\ client.calls = 0 /\ client.txs = 0
       /\ client.uploads = (IF client.image THEN 2 ELSE 1)
       /\ client.metadataHash # "" /\ client.pinned = stringify(client.metadata)

\* chain id 0: image and document were uploaded, and the batch was created on
\* the ledger of the default deployment
C30_Witness ==
    /\ WithMetadata /\ client.chainId = 0
    /\ client.pc = "returned"
    /\ client.uploads = 2
    /\ client.txs = 1
    /\ batches[client.value].ipfsHash = client.metadataHash

====
